---- MODULE Spec2Model ----
(***************************************************************************)
(* Model of the split planner (core_analyzer.FileAnalyzer) and of the      *)
(* concurrent batch execution engine (performance_optimizer.BatchProcessor)*)
(* and of the job expansion (batch_processor.OCRBatchProcessor) of         *)
(* MISTRAL_OCR_V13.                                                        *)
(*                                                                         *)
(* Numbers.  Python floats are modelled by exact rationals <<num, den>>    *)
(* with den > 0.  Sizes are integers in hundredths of a megabyte (cMB),    *)
(* safety factors are integers in percent, times are integers in seconds.  *)
(* Floating-point rounding is not modelled.                                *)
(***************************************************************************)
EXTENDS Integers, Sequences, FiniteSets, TLC

VARIABLES
    \* ---- split planner (core_analyzer.py) ----
    metrics,        \* FileMetrics of the file under analysis
    limits,         \* SplitLimits of the FileAnalyzer
    analysis,       \* <<>> before analyze_split_needs, then <<SplitAnalysis>>
    plan,           \* the value last returned by a planning call: <<>> is None,
                    \* <<plan>> a plan, the list itself for get_alternative_plans
    planop,         \* which planning call returned `plan`, with its argument
    \* ---- upload cache (performance_optimizer.py, BatchProcessor) ----
    fs,             \* the file system: file |-> [exists, size_mb, content]
    upload_cache,   \* self.upload_cache: key |-> [url, timestamp, filename]
    now,            \* time.time(), in seconds
    next_id,        \* the id the remote service gives to the next uploaded file
    ticks,          \* how often the clock was advanced between calls
    ncalls,         \* how many calls of _upload_file_cached were made directly
    prev_call,      \* the record of the call before the last one, or None
    last_call,      \* the record of the last call of _upload_file_cached, or None
    \* ---- batch execution (performance_optimizer.py, BatchProcessor) ----
    pc,             \* where the call of process_files_optimized is
    files_info,     \* the batch: job |-> [file_path, size_mb]
    config,         \* the output formats the caller's config asks for
    groups,         \* the jobs of the groups large, medium, small
    gi,             \* the index of the group being processed (4: none left)
    workers,        \* the pool width of that group
    submitted,      \* how many jobs of the group were submitted to the pool
    fut,            \* job |-> the execution of its body in the pool (its future)
    retry,          \* job |-> the inline execution of its body by the collector
    cur,            \* the job the collector is retrying inline
    group_results,  \* results of _process_group_concurrent
    results,        \* results of process_files_optimized
    adaptive_delay, \* self.adaptive_delay
    last_sleep,     \* the last sleep of the calling thread, or None
    rl_event,       \* the last rate-limit error handled: job, delay before
    completed_count,\* completed_count of _process_group_concurrent
    faults,         \* how many errors the remote services have raised so far
    progress,       \* the calls of progress_callback: <<group, completed, total>>
    \* ---- job expansion (batch_processor.py, OCRBatchProcessor) ----
    file_info,      \* the file handed to process_with_split
    pdf_pages,      \* the number of pages PdfReader finds in the file
    split_config,   \* max_size_mb and max_pages of the caller's config
    target_files_from_modal, \* self.target_files_from_modal, 0 when not set
    split_pc,       \* where the call of process_with_split is
    num_files_target,   \* num_files_target of process_with_split, 0 before
    files_to_process,   \* the list process_with_split returned
    \* ---- concurrent calls of _upload_file_cached (performance_optimizer.py) ----
    callers,        \* worker |-> where its call of _upload_file_cached is
    \* ---- the constructor argument of the processor ----
    max_workers     \* self.max_workers

planVars == <<metrics, limits, analysis, plan, planop>>

cacheVars == <<fs, upload_cache, now, next_id, ticks, ncalls, prev_call, last_call>>

execVars == <<pc, files_info, config, groups, gi, workers, submitted, fut, retry, cur, group_results,
              results, adaptive_delay, last_sleep, rl_event, completed_count, faults,
              progress>>

splitVars == <<file_info, pdf_pages, split_config, target_files_from_modal, split_pc,
               num_files_target, files_to_process>>

raceVars == <<callers>>

vars == <<metrics, limits, analysis, plan, planop,
          fs, upload_cache, now, next_id, ticks, ncalls, prev_call, last_call,
          pc, files_info, config, groups, gi, workers, submitted, fut, retry, cur, group_results,
          results, adaptive_delay, last_sleep, rl_event, completed_count, faults,
          progress,
          file_info, pdf_pages, split_config, target_files_from_modal, split_pc,
          num_files_target, files_to_process, callers, max_workers>>

----------------------------------------------------------------------------
(* Option values: Python's None is the empty sequence.                     *)
None == <<>>
Some(x) == <<x>>
IsSome(o) == Len(o) = 1
Get(o) == o[1]

Max2(a, b) == IF a >= b THEN a ELSE b
Min2(a, b) == IF a <= b THEN a ELSE b
Abs(a) == IF a >= 0 THEN a ELSE 0 - a

(* math.ceil(a / b) for a >= 0, b > 0 *)
CeilDiv(a, b) == (a + b - 1) \div b

RECURSIVE Gcd(_, _)
Gcd(a, b) == IF b = 0 THEN a ELSE Gcd(b, a % b)

(* Exact rationals. *)
Rat(n, d) == LET g == Gcd(Abs(n), d) IN <<n \div g, d \div g>>
RInt(n) == <<n, 1>>
RAdd(x, y) ==
    LET g == Gcd(x[2], y[2])
    IN  Rat(x[1] * (y[2] \div g) + y[1] * (x[2] \div g), (x[2] \div g) * y[2])
RSub(x, y) == RAdd(x, <<0 - y[1], y[2]>>)
RScale(k, x) == Rat(k * x[1], x[2])
RAbs(x) == <<Abs(x[1]), x[2]>>

(* a/b < c/d without forming the cross products (b, d > 0): compare the    *)
(* integer parts, then the remainders by their reciprocals.                *)
RECURSIVE FracLess(_, _, _, _)
FracLess(a, b, c, d) ==
    LET qa == a \div b
        qc == c \div d
        ra == a % b
        rc == c % d
    IN  IF qa # qc THEN qa < qc
        ELSE IF rc = 0 THEN FALSE
        ELSE IF ra = 0 THEN TRUE
        ELSE FracLess(d, rc, b, ra)

RLess(x, y) == FracLess(x[1], x[2], y[1], y[2])
RLeq(x, y) == ~RLess(y, x)
RMin(x, y) == IF RLess(y, x) THEN y ELSE x
RMax(x, y) == IF RLess(x, y) THEN y ELSE x
RMul(x, y) == Rat(x[1] * y[1], x[2] * y[2])

----------------------------------------------------------------------------
(* SplitLimits: max_size_mb and pdf_overhead_mb in cMB, factors in percent *)

(* safe_max_size = max_size_mb * safety_factor_size, a rational in cMB *)
safe_max_size(L) == Rat(L.max_size_mb * L.safety_factor_size, 100)

(* The page limit scaled and rounded to the nearest integer instead *)
safe_max_pages_rounded(L) == (L.max_pages * L.safety_factor_pages + 50) \div 100

(* safe_max_pages = int(max_pages * safety_factor_pages) *)
safe_max_pages(L) == (L.max_pages * L.safety_factor_pages) \div 100

(* FileAnalyzer.get_file_metrics: density = size / pages, 0 without pages *)
FileMetrics(size, pages) ==
    [size_mb |-> size, total_pages |-> pages,
     density_mb_per_page |-> IF pages > 0 THEN Rat(size, pages) ELSE RInt(0)]

(* The trigger compared with the safety-scaled limits instead *)
requires_split_safe(m, L) ==
    IF RLess(safe_max_size(L), RInt(m.size_mb)) THEN TRUE
    ELSE IF m.total_pages > safe_max_pages(L) THEN TRUE
    ELSE FALSE

(* The trigger of analyze_split_needs: the if / elif on the unscaled limits *)
requires_split(m, L) ==
    IF m.size_mb > L.max_size_mb THEN TRUE
    ELSE IF m.total_pages > L.max_pages THEN TRUE
    ELSE FALSE

(* An analysis whose required_files is the smaller of the two minima *)
analyze_split_needs_min(m, L) ==
    LET S == safe_max_size(L)
        min_files_by_size == CeilDiv(m.size_mb * S[2], S[1])
        min_files_by_pages == CeilDiv(m.total_pages, safe_max_pages(L))
    IN  [metrics |-> m,
         limits |-> L,
         requires_splitting |-> requires_split(m, L),
         reason |-> IF m.size_mb > L.max_size_mb THEN "size"
                    ELSE IF m.total_pages > L.max_pages THEN "pages"
                    ELSE "",
         min_files_by_size |-> min_files_by_size,
         min_files_by_pages |-> min_files_by_pages,
         required_files |-> Min2(min_files_by_size, min_files_by_pages)]

(* FileAnalyzer.analyze_split_needs *)
analyze_split_needs(m, L) ==
    LET S == safe_max_size(L)
        min_files_by_size == CeilDiv(m.size_mb * S[2], S[1])
        min_files_by_pages == CeilDiv(m.total_pages, safe_max_pages(L))
    IN  [metrics |-> m,
         limits |-> L,
         requires_splitting |-> requires_split(m, L),
         reason |-> IF m.size_mb > L.max_size_mb THEN "size"
                    ELSE IF m.total_pages > L.max_pages THEN "pages"
                    ELSE "",
         min_files_by_size |-> min_files_by_size,
         min_files_by_pages |-> min_files_by_pages,
         required_files |-> Max2(min_files_by_size, min_files_by_pages)]

(* A plan for a file within the limits that follows required_files instead *)
no_split_plan_by_required_files(a) ==
    [num_files |-> a.required_files,
     pages_per_file |-> CeilDiv(a.metrics.total_pages, Max2(1, a.required_files)),
     estimated_mb_per_file |-> RInt(a.metrics.size_mb),
     total_pages |-> a.metrics.total_pages,
     total_size_mb |-> a.metrics.size_mb,
     strategy |-> "no-split-required",
     efficiency_score |-> RInt(1),
     warnings |-> <<>>]

(* FileAnalyzer._no_split_plan *)
no_split_plan(a) ==
    [num_files |-> 1,
     pages_per_file |-> a.metrics.total_pages,
     estimated_mb_per_file |-> RInt(a.metrics.size_mb),
     total_pages |-> a.metrics.total_pages,
     total_size_mb |-> a.metrics.size_mb,
     strategy |-> "no-split-required",
     efficiency_score |-> RInt(1),
     warnings |-> <<>>]

(* The density qualifier taking the place of every base tag *)
density_strategy_replace(strategy, density) ==
    IF RLess(RInt(100), density) THEN "high-density"
    ELSE IF RLess(density, RInt(10)) THEN "low-density"
    ELSE strategy

(* The strategy tag after the density adjustment of calculate_split_plan;  *)
(* the density is in cMB per page: 1.0 MB/page is 100, 0.1 MB/page is 10   *)
density_strategy(strategy, density) ==
    IF RLess(RInt(100), density)
    THEN (IF strategy = "balanced" THEN "high-density"
          ELSE IF strategy = "size-constrained" THEN "size-constrained-high-density"
          ELSE "page-constrained-high-density")
    ELSE IF RLess(density, RInt(10))
    THEN (IF strategy = "balanced" THEN "low-density"
          ELSE IF strategy = "size-constrained" THEN "size-constrained-low-density"
          ELSE "page-constrained-low-density")
    ELSE strategy

(* A score kept within [0, 1] by giving up the penalty beyond the sum of   *)
(* the three terms                                                         *)
efficiency_clamped(L, mb_per_file, pages_per_file, num_files) ==
    LET S == safe_max_size(L)
        size_efficiency ==
            RMin(RInt(1), Rat(S[1] * mb_per_file[2], S[2] * mb_per_file[1]))
        page_efficiency ==
            IF pages_per_file > 0
            THEN RMin(RInt(1), Rat(safe_max_pages(L), pages_per_file))
            ELSE RInt(0)
        diff == RAbs(RSub(size_efficiency, page_efficiency))
        balance_score == RSub(RInt(1), Rat(diff[1], 2 * diff[2]))
        file_penalty == Rat(Max2(0, (num_files - 5) * 5), 100)
        raw == RSub(RAdd(RAdd(Rat(2 * size_efficiency[1], 5 * size_efficiency[2]),
                              Rat(2 * page_efficiency[1], 5 * page_efficiency[2])),
                         Rat(balance_score[1], 5 * balance_score[2])),
                    file_penalty)
    IN  RMax(RInt(0), raw)

(* efficiency_score of calculate_split_plan, not clamped *)
efficiency(L, mb_per_file, pages_per_file, num_files) ==
    LET S == safe_max_size(L)
        size_efficiency ==
            IF mb_per_file[1] > 0
            THEN RMin(RInt(1), Rat(S[1] * mb_per_file[2], S[2] * mb_per_file[1]))
            ELSE RInt(0)
        page_efficiency ==
            IF pages_per_file > 0
            THEN RMin(RInt(1), Rat(safe_max_pages(L), pages_per_file))
            ELSE RInt(0)
        balance_score ==
            LET diff == RAbs(RSub(size_efficiency, page_efficiency))
            IN  RSub(RInt(1), Rat(diff[1], 2 * diff[2]))
        file_penalty == Rat(Max2(0, (num_files - 5) * 5), 100)
    IN  RSub(RAdd(RAdd(Rat(2 * size_efficiency[1], 5 * size_efficiency[2]),
                       Rat(2 * page_efficiency[1], 5 * page_efficiency[2])),
                  Rat(balance_score[1], 5 * balance_score[2])),
             file_penalty)

(* FileAnalyzer.calculate_split_plan; nf is None or Some(num_files) *)
calculate_split_plan(a, nf) ==
    IF ~a.requires_splitting THEN no_split_plan(a)
    ELSE
    LET L == a.limits
        num_files == IF IsSome(nf) THEN Get(nf) ELSE a.required_files
        pages_per_file == CeilDiv(a.metrics.total_pages, num_files)
        mb_per_file == RAdd(Rat(a.metrics.size_mb, num_files), RInt(L.pdf_overhead_mb))
        size_warn == RLess(safe_max_size(L), mb_per_file)
        page_warn == pages_per_file > safe_max_pages(L)
        strategy == IF page_warn THEN "page-constrained"
                    ELSE IF size_warn THEN "size-constrained"
                    ELSE "balanced"
    IN  [num_files |-> num_files,
         pages_per_file |-> pages_per_file,
         estimated_mb_per_file |-> mb_per_file,
         total_pages |-> a.metrics.total_pages,
         total_size_mb |-> a.metrics.size_mb,
         strategy |-> density_strategy(strategy, a.metrics.density_mb_per_page),
         efficiency_score |-> efficiency(L, mb_per_file, pages_per_file, num_files),
         warnings |-> (IF size_warn THEN <<"size">> ELSE <<>>)
                      \o (IF page_warn THEN <<"pages">> ELSE <<>>)]

(* The search loop of get_optimal_split_plan: best is <<best_plan, best_score>> *)
RECURSIVE optimal_search(_, _, _, _)
optimal_search(a, num_files, last, best) ==
    IF num_files > last THEN best[1]
    ELSE LET p == calculate_split_plan(a, Some(num_files))
         IN  IF RLess(best[2], p.efficiency_score)
             THEN optimal_search(a, num_files + 1, last, <<Some(p), p.efficiency_score>>)
             ELSE optimal_search(a, num_files + 1, last, best)

(* FileAnalyzer.get_optimal_split_plan: None or Some(plan) *)
get_optimal_split_plan(a) ==
    IF ~a.requires_splitting THEN Some(no_split_plan(a))
    ELSE optimal_search(a, a.required_files, a.required_files + 2, <<None, RInt(0)>>)

(* SplitPlan.is_optimal: at most 50 MB and 150 pages a file, a score of 0.8 *)
is_optimal(p) ==
    /\ RLeq(p.estimated_mb_per_file, RInt(5000))
    /\ p.pages_per_file <= 150
    /\ RLeq(<<4, 5>>, p.efficiency_score)

(* The plan for a chunk size, whatever is_optimal says of it *)
chunk_candidates_unfiltered(a, chunk_size) ==
    IF chunk_size < a.metrics.total_pages
    THEN <<calculate_split_plan(a, Some(CeilDiv(a.metrics.total_pages, chunk_size)))>>
    ELSE <<>>

(* One turn of the loop over chunk_size in [50, 100] of get_alternative_plans *)
chunk_candidates(a, chunk_size) ==
    IF chunk_size < a.metrics.total_pages
    THEN LET p == calculate_split_plan(a, Some(CeilDiv(a.metrics.total_pages, chunk_size)))
         IN  IF is_optimal(p) THEN <<p>> ELSE <<>>
    ELSE <<>>

(* The list `alternatives` of get_alternative_plans before it is sorted *)
alternatives(a) ==
    <<calculate_split_plan(a, Some(a.required_files)),
      calculate_split_plan(a, Some(a.required_files + 1))>>
    \o chunk_candidates(a, 50) \o chunk_candidates(a, 100)

(* p put into a list sorted by falling score, behind the plans of equal score *)
RECURSIVE insert_by_score(_, _)
insert_by_score(s, p) ==
    IF s = <<>> THEN <<p>>
    ELSE IF RLess(Head(s).efficiency_score, p.efficiency_score) THEN <<p>> \o s
    ELSE <<Head(s)>> \o insert_by_score(Tail(s), p)

(* alternatives.sort(key=efficiency_score, reverse=True): a stable sort *)
RECURSIVE sort_by_efficiency(_)
sort_by_efficiency(s) ==
    IF s = <<>> THEN <<>>
    ELSE insert_by_score(sort_by_efficiency(SubSeq(s, 1, Len(s) - 1)), s[Len(s)])

(* The loop that keeps the first plan of each key (num_files, pages_per_file) *)
RECURSIVE unique_alternatives(_, _)
unique_alternatives(s, seen) ==
    IF s = <<>> THEN <<>>
    ELSE LET key == <<Head(s).num_files, Head(s).pages_per_file>>
         IN  IF key \in seen THEN unique_alternatives(Tail(s), seen)
             ELSE <<Head(s)>> \o unique_alternatives(Tail(s), seen \cup {key})

(* FileAnalyzer.get_alternative_plans: the list of plans it returns *)
get_alternative_plans(a) ==
    IF ~a.requires_splitting THEN <<no_split_plan(a)>>
    ELSE LET u == unique_alternatives(sort_by_efficiency(alternatives(a)), {})
         IN  SubSeq(u, 1, Min2(3, Len(u)))


----------------------------------------------------------------------------
(* BatchOptimizer (batch_optimizer.py), the planner that FileAnalyzer      *)
(* consolidates; sizes in cMB, exact rationals                             *)

(* MAX_SIZE_MB, MAX_PAGES, SAFETY_FACTOR_SIZE, SAFETY_FACTOR_PAGES and     *)
(* PDF_OVERHEAD_MB of the class                                            *)
BatchOptimizerLimits ==
    [max_size_mb |-> 4800, max_pages |-> 145, safety_factor_size |-> 97,
     safety_factor_pages |-> 97, pdf_overhead_mb |-> 50]

(* BatchOptimizer.analyze_pdf for a file of size_mb with total_pages *)
analyze_pdf(size_mb, total_pages) ==
    [total_size_mb |-> size_mb,
     total_pages |-> total_pages,
     density_mb_per_page |-> IF total_pages > 0 THEN Rat(size_mb, total_pages)
                             ELSE RInt(0),
     requires_splitting |-> IF size_mb > BatchOptimizerLimits.max_size_mb THEN TRUE
                            ELSE IF total_pages > BatchOptimizerLimits.max_pages THEN TRUE
                            ELSE FALSE,
     reason |-> IF size_mb > BatchOptimizerLimits.max_size_mb THEN "size"
                ELSE IF total_pages > BatchOptimizerLimits.max_pages THEN "pages"
                ELSE ""]

(* BatchOptimizer._evaluate_split: <<"return", recommendation>>, or         *)
(* <<"raise", error>> when safe_max_pages / pages_per_file divides by zero  *)
evaluate_split(a, num_files) ==
    LET B == BatchOptimizerLimits
        S == safe_max_size(B)
        P == safe_max_pages(B)
        pages_per_file == CeilDiv(a.total_pages, num_files)
        mb_per_file == RAdd(Rat(a.total_size_mb, num_files), RInt(B.pdf_overhead_mb))
        size_warn == RLess(S, mb_per_file)
        page_warn == pages_per_file > P
        strategy == IF page_warn THEN "page-constrained"
                    ELSE IF size_warn THEN "size-constrained"
                    ELSE "balanced"
        size_efficiency == RMin(RInt(1), Rat(S[1] * mb_per_file[2], S[2] * mb_per_file[1]))
        page_efficiency == RMin(RInt(1), Rat(P, pages_per_file))
        diff == RAbs(RSub(size_efficiency, page_efficiency))
        balance_score == RSub(RInt(1), Rat(diff[1], 2 * diff[2]))
        file_penalty == Rat(Max2(0, (num_files - 5) * 5), 100)
        efficiency_score ==
            RSub(RAdd(RAdd(Rat(2 * size_efficiency[1], 5 * size_efficiency[2]),
                           Rat(2 * page_efficiency[1], 5 * page_efficiency[2])),
                      Rat(balance_score[1], 5 * balance_score[2])),
                 file_penalty)
    IN  IF pages_per_file = 0 THEN <<"raise", "ZeroDivisionError">>
        ELSE <<"return",
               [num_files |-> num_files,
                pages_per_file |-> pages_per_file,
                estimated_mb_per_file |-> mb_per_file,
                total_pages |-> a.total_pages,
                total_size_mb |-> a.total_size_mb,
                strategy |-> density_strategy(strategy, a.density_mb_per_page),
                efficiency_score |-> efficiency_score,
                warnings |-> (IF size_warn THEN <<"size">> ELSE <<>>)
                             \o (IF page_warn THEN <<"pages">> ELSE <<>>)]>>

(* BatchOptimizer._no_split_recommendation *)
no_split_recommendation(a) ==
    [num_files |-> 1,
     pages_per_file |-> a.total_pages,
     estimated_mb_per_file |-> RInt(a.total_size_mb),
     total_pages |-> a.total_pages,
     total_size_mb |-> a.total_size_mb,
     strategy |-> "no-split-required",
     efficiency_score |-> RInt(1),
     warnings |-> <<>>]

(* max(ceil(size / safe_max_size), ceil(pages / safe_max_pages)) *)
min_files_required(a) ==
    LET S == safe_max_size(BatchOptimizerLimits)
    IN  Max2(CeilDiv(a.total_size_mb * S[2], S[1]),
             CeilDiv(a.total_pages, safe_max_pages(BatchOptimizerLimits)))

(* The loop of calculate_optimal_split: best is <<best_recommendation,     *)
(* best_score>>                                                            *)
RECURSIVE optimal_split_search(_, _, _, _)
optimal_split_search(a, num_files, last, best) ==
    IF num_files > last THEN <<"return", best[1]>>
    ELSE LET r == evaluate_split(a, num_files)
         IN  IF r[1] = "raise" THEN r
             ELSE IF RLess(best[2], r[2].efficiency_score)
             THEN optimal_split_search(a, num_files + 1, last,
                                       <<Some(r[2]), r[2].efficiency_score>>)
             ELSE optimal_split_search(a, num_files + 1, last, best)

(* BatchOptimizer.calculate_optimal_split: <<"return", None or Some(rec)>>  *)
(* or <<"raise", error>>                                                    *)
calculate_optimal_split(a) ==
    IF ~a.requires_splitting THEN <<"return", Some(no_split_recommendation(a))>>
    ELSE optimal_split_search(a, min_files_required(a), min_files_required(a) + 2,
                              <<None, RInt(0)>>)

(* SplitRecommendation.is_optimal *)
recommendation_is_optimal(rec) ==
    /\ RLeq(rec.estimated_mb_per_file, RInt(5000))
    /\ rec.pages_per_file <= 150
    /\ RLeq(<<4, 5>>, rec.efficiency_score)

(* BatchOptimizer.get_alternative_recommendations: <<"return", list>> or   *)
(* <<"raise", error>>                                                      *)
get_alternative_recommendations(a) ==
    IF ~a.requires_splitting THEN <<"return", <<no_split_recommendation(a)>> >>
    ELSE
    LET min_files == min_files_required(a)
        r1 == evaluate_split(a, min_files)
        r2 == evaluate_split(a, min_files + 1)
        chunk(chunk_size) ==
            IF chunk_size < a.total_pages
            THEN LET rec == evaluate_split(a, CeilDiv(a.total_pages, chunk_size))[2]
                 IN  IF recommendation_is_optimal(rec) THEN <<rec>> ELSE <<>>
            ELSE <<>>
    IN  IF r1[1] = "raise" THEN r1
        ELSE LET all == <<r1[2], r2[2]>> \o chunk(50) \o chunk(100)
                 u == unique_alternatives(sort_by_efficiency(all), {})
             IN  <<"return", SubSeq(u, 1, Min2(3, Len(u)))>>

(* MultiBatchProcessor.analyze_multiple_files for files that exist and     *)
(* whose pages can be counted: the entries of the summary.  A file that    *)
(* needs no split keeps recommendation = None, and so does a file whose    *)
(* recommendation could not be computed                                    *)
analyze_multiple_files(files) ==
    [k \in 1 .. Len(files) |->
        LET a == analyze_pdf(files[k].size_mb, files[k].total_pages)
            r == calculate_optimal_split(a)
        IN  [analysis |-> a,
             recommendation |-> IF a.requires_splitting /\ r[1] = "return"
                                THEN r[2] ELSE None]]

(* The operations of generate_processing_plan for one entry *)
file_operations(entry) ==
    IF ~IsSome(entry.recommendation) THEN <<>>
    ELSE LET rec == Get(entry.recommendation)
             total == entry.analysis.total_pages
         IN  IF rec.num_files = 1
             THEN << [type |-> "direct_process", pages |-> total] >>
             ELSE [i \in 1 .. rec.num_files |->
                     LET start_page == (i - 1) * rec.pages_per_file + 1
                         end_page == Min2(i * rec.pages_per_file, total)
                     IN  [type |-> "split_and_process",
                          part_number |-> i,
                          pages_range |-> <<start_page, end_page>>,
                          pages_count |-> end_page - start_page + 1]]

(* The loop of generate_processing_plan from entry k on *)
RECURSIVE plan_files(_, _, _)
plan_files(entries, k, current_page_offset) ==
    IF k > Len(entries) THEN <<>>
    ELSE LET entry == entries[k]
             advance == IF IsSome(entry.recommendation)
                        THEN entry.analysis.total_pages ELSE 0
         IN  << [page_offset |-> current_page_offset,
                 operations |-> file_operations(entry)] >>
             \o plan_files(entries, k + 1, current_page_offset + advance)

(* MultiBatchProcessor.generate_processing_plan(summary): plan['files'] *)
generate_processing_plan(entries) == plan_files(entries, 1, 0)

----------------------------------------------------------------------------
(* Inputs of the planner specification *)
MaxNumFiles == 7

SizeSet == {300, 1000, 4700, 4800, 4850, 9300, 10000, 27800, 120000}
PageSet == {0, 1, 10, 25, 50, 140, 141, 146, 400, 3500}

DefaultLimits ==
    [max_size_mb |-> 4800, max_pages |-> 145, safety_factor_size |-> 97,
     safety_factor_pages |-> 97, pdf_overhead_mb |-> 50]

LimitSet ==
    { DefaultLimits,
      [max_size_mb |-> 4800, max_pages |-> 135, safety_factor_size |-> 97,
       safety_factor_pages |-> 90, pdf_overhead_mb |-> 50],
      [max_size_mb |-> 1000, max_pages |-> 10, safety_factor_size |-> 100,
       safety_factor_pages |-> 100, pdf_overhead_mb |-> 0] }


----------------------------------------------------------------------------
(* Upload cache: BatchProcessor._upload_file_cached, _cleanup_expired_cache *)

(* The cache lifetime wrongly taken from the 24 h validity of a signed URL *)
TTL_url_validity == 86400

(* Seconds an entry is served from the cache (12 hours) *)
TTL == 43200

Files == 1 .. 3

(* The content of each file: files 1 and 2 hold the same bytes under two names *)
ContentOf == <<1, 1, 2>>

(* The cache key derived from the file name instead of the bytes *)
file_hash_of_name(f, content) == <<"md5", 100 + f>>

(* The page_offset the caller gives to the job of each file *)
PageOffsetOf == <<0, 10, 25>>

(* hashlib.md5(content).hexdigest(): one key per content, whatever the name *)
file_hash(f, content) == <<"md5", content>>

(* Python dict operations on a function whose domain is the set of keys *)
DictDel(d, key) == [k \in (DOMAIN d) \ {key} |-> d[k]]
DictPut(d, key, v) == [k \in (DOMAIN d) \cup {key} |-> IF k = key THEN v ELSE d[k]]

(* _cleanup_expired_cache at clock reading t *)
cleanup_expired_cache(cache, t) ==
    LET expired_keys == {k \in DOMAIN cache : t - cache[k].timestamp > TTL}
    IN  [k \in (DOMAIN cache) \ expired_keys |-> cache[k]]

(* time.sleep(2 ** attempt) after the failed signed-URL requests 0 and 1 *)
signed_url_sleeps(fails) ==
    IF fails = 0 THEN <<>> ELSE IF fails = 1 THEN <<1>> ELSE <<1, 2>>

(* _upload_file_cached(file_path, force_fresh), called at clock reading t0 *)
(* with the cache `cache`; id is the id the service gives to an upload.    *)
(* env is what the environment does during the call:                       *)
(*   read_ok      file_path.read_bytes() returns (else FileNotFoundError)  *)
(*   d_check      seconds between the clock reading of the purge and the   *)
(*                one of the expiry check                                  *)
(*   upload_err   "" or the error files.upload raises                      *)
(*   signed_fails how many get_signed_url requests fail (3: all of them)   *)
(*   signed_err   the error of a failing get_signed_url                    *)
(* The result is <<"return", url>> or <<"raise", error>>.                  *)
upload_file_cached(cache, t0, f, content, force_fresh, env, id) ==
    LET c1 == cleanup_expired_cache(cache, t0)
        key == file_hash(f, content)
        t1 == t0 + env.d_check
        cached == ~force_fresh /\ key \in DOMAIN c1
        hit == cached /\ t1 - c1[key].timestamp < TTL
        c2 == IF cached /\ ~hit THEN DictDel(c1, key) ELSE c1
        sleeps == signed_url_sleeps(env.signed_fails)
        \* the seconds slept are recorded in `sleeps`; against the 12 h lifetime
        \* they are not told apart by the clock, which advances in Tick
        t2 == t1
        base == [before |-> (IF key \in DOMAIN cache THEN Some(cache[key]) ELSE None),
                 \* the entry under the key when files.upload is called
                 at_upload |-> (IF key \in DOMAIN c2 THEN Some(c2[key]) ELSE None),
                 t_call |-> t0, t_lookup |-> t1]
    IN  IF ~env.read_ok
        THEN base @@ [cache |-> c1, result |-> <<"raise", "not_found">>, uploads |-> 0,
                      signed_requests |-> 0, sleeps |-> <<>>, t_end |-> t0]
        ELSE IF hit
        THEN base @@ [cache |-> c1, result |-> <<"return", c1[key].url>>, uploads |-> 0,
                      signed_requests |-> 0, sleeps |-> <<>>, t_end |-> t1]
        ELSE IF env.upload_err # ""
        THEN base @@ [cache |-> c2, result |-> <<"raise", env.upload_err>>, uploads |-> 1,
                      signed_requests |-> 0, sleeps |-> <<>>, t_end |-> t1]
        ELSE IF env.signed_fails = 3
        THEN base @@ [cache |-> c2, result |-> <<"raise", env.signed_err>>, uploads |-> 1,
                      signed_requests |-> 3, sleeps |-> sleeps, t_end |-> t2]
        ELSE base @@ [cache |-> DictPut(c2, key, [url |-> id, timestamp |-> t2,
                                                    filename |-> f]),
                      result |-> <<"return", id>>, uploads |-> 1,
                      signed_requests |-> env.signed_fails + 1,
                      sleeps |-> sleeps, t_end |-> t2]

(* What the environment may do during a direct call *)
CallEnvs ==
    { [read_ok |-> FALSE, d_check |-> 0, upload_err |-> "", signed_fails |-> 0,
       signed_err |-> ""],
      [read_ok |-> TRUE, d_check |-> 0, upload_err |-> "upload_error",
       signed_fails |-> 0, signed_err |-> ""],
      [read_ok |-> TRUE, d_check |-> 1, upload_err |-> "", signed_fails |-> 0,
       signed_err |-> ""] }
    \cup { [read_ok |-> TRUE, d_check |-> 0, upload_err |-> "", signed_fails |-> k,
            signed_err |-> "upload_error"] : k \in 0 .. 3 }

MaxCalls == 2
MaxTicks == 1
TickSteps == {TTL - 1, TTL, TTL + 1}

----------------------------------------------------------------------------
(* The batch execution engine: BatchProcessor.process_files_optimized      *)
(* Delays are exact rationals in seconds; file sizes are whole megabytes.  *)

(* A processor that starts at the floor of the adaptive delay *)
base_delay_floor == <<1, 2>>

base_delay == <<3, 2>>
rate_limit_backoff == <<3, 2>>
adaptive_reduction_factor == <<9, 10>>
max_retries == 2

(* The size in MB of each file; files with the same bytes have the same size *)
SizeOf == <<4, 4, 40>>

GroupNames == <<"large", "medium", "small">>
EmptyResults == [success |-> <<>>, failed |-> <<>>]

(* Error texts are modelled by the class the two detectors put them in *)
is_rate_limit_error(error_str) == error_str = "rate_limit"
is_url_fetch_error(error_str) == error_str = "fetch_3310"

(* The buckets handed out with the fastest files first *)
group_files_by_size_small_first(info) ==
    LET idx == [i \in 1 .. Len(info) |-> i]
    IN  << SelectSeq(idx, LAMBDA i : info[i].size_mb < 10),
           SelectSeq(idx, LAMBDA i : info[i].size_mb >= 10 /\ info[i].size_mb < 30),
           SelectSeq(idx, LAMBDA i : info[i].size_mb >= 30) >>

(* _group_files_by_size: the job indexes of each bucket, in batch order *)
group_files_by_size(info) ==
    LET idx == [i \in 1 .. Len(info) |-> i]
    IN  << SelectSeq(idx, LAMBDA i : info[i].size_mb >= 30),
           SelectSeq(idx, LAMBDA i : info[i].size_mb >= 10 /\ info[i].size_mb < 30),
           SelectSeq(idx, LAMBDA i : info[i].size_mb < 10) >>

(* the next group after g that has files (empty groups are skipped), 4 if none *)
next_group(grps, g) ==
    IF \E h \in g + 1 .. 3 : grps[h] # <<>>
    THEN CHOOSE h \in g + 1 .. 3 :
            grps[h] # <<>> /\ \A k \in g + 1 .. h - 1 : grps[k] = <<>>
    ELSE 4

(* Every group given the default max_workers = 3 of the processor *)
get_optimal_workers_default(group_name, file_count) == Min2(3, file_count)

get_optimal_workers(group_name, file_count) ==
    IF group_name = "large" THEN Min2(2, file_count)
    ELSE IF group_name = "medium" THEN Min2(3, file_count)
    ELSE Min2(4, file_count)

get_delay_for_file(file_size_mb) ==
    IF file_size_mb < 5 THEN <<1, 2>>
    ELSE IF file_size_mb < 30 THEN <<3, 2>>
    ELSE <<4, 1>>

(* line 186: the delay after a result was taken from a future *)
on_success(delay) == RMax(<<1, 2>>, RMul(delay, adaptive_reduction_factor))

(* line 194: the delay after a rate-limit error *)
on_rate_limited(delay) == RMul(delay, rate_limit_backoff)

(* The collector sleeping the delay itself before the inline retry *)
rate_limit_sleep_once(delay) == delay

(* line 197: the sleep before the inline retry, from the new delay *)
rate_limit_sleep(delay) == RScale(2, delay)

(* The same pause before every retry *)
retry_sleep_flat(attempt) == 3

(* line 290: the pause after a transient-fetch error on `attempt` *)
retry_sleep(attempt) == 3 * (attempt + 1)

(* line 234: the key the retry path looks for, built from name, mtime, size *)
file_key(f, file) == <<"name_mtime_size", f, file.size_mb>>

(* The output formats, in the order _save_results_optimized queues them *)
Formats == <<"md", "txt", "html", "images">>

(* save_tasks for a config that asks for the formats cfg (save_md, ...) *)
save_tasks(cfg) == SelectSeq(Formats, LAMBDA t : t \in cfg)

(* The collection of the writes given up at the first one that raises *)
save_results_until_error(cfg, fails) ==
    LET tasks == save_tasks(cfg)
        bad == {k \in 1 .. Len(tasks) : tasks[k] \in fails}
        stop == IF bad = {} THEN Len(tasks) + 1
                ELSE CHOOSE k \in bad : \A j \in bad : k <= j
    IN  {tasks[k] : k \in 1 .. stop - 1}

(* _save_results_optimized: every queued write runs; the writes in `fails` *)
(* raise, which is logged; the keys of saved_files are the formats of the  *)
(* writes that returned                                                    *)
save_results_optimized(cfg, fails) ==
    LET tasks == save_tasks(cfg)
    IN  {tasks[k] : k \in {j \in 1 .. Len(tasks) : tasks[j] \notin fails}}

(* One execution of _process_single_file_with_metrics, in a pool worker or *)
(* inline in the collector                                                 *)
NewExec ==
    [st |-> "new", attempt |-> 0, errs |-> <<>>, sleeps |-> <<>>,
     ocr_calls |-> 0, uploads |-> 0, file_url |-> 0, error |-> "",
     runs |-> 0, collected |-> FALSE, saved_files |-> {}, save_fails |-> {},
     retried_urls |-> {}, last_iter |-> None,
     page_offset |-> None, writer_offsets |-> <<>>]

Pause(kind, secs) == [kind |-> kind, secs |-> secs]

(* One iteration of the attempt loop (lines 227-296) on file f, at clock   *)
(* reading t with the cache `cache`.  env is what the services do:         *)
(*   upload_err, signed_fails, signed_err   as for upload_file_cached      *)
(*   ocr   "ok" or the error ocr.process raises                            *)
(*   save_fails   the formats whose write raises                           *)
(* outcome is "return", "retry" (continue) or "raise".                     *)
process_attempt(cache, t, f, file, attempt, env, id, cfg) ==
    LET stat_fails == attempt > 0 /\ ~file.exists
        c0 == IF attempt > 0 /\ file.exists /\ file_key(f, file) \in DOMAIN cache
              THEN DictDel(cache, file_key(f, file))
              ELSE cache
        up == upload_file_cached(c0, t, f, file.content, attempt > 0,
                                 [read_ok |-> file.exists, d_check |-> 0,
                                  upload_err |-> env.upload_err,
                                  signed_fails |-> env.signed_fails,
                                  signed_err |-> env.signed_err], id)
        uploaded == ~stat_fails /\ up.result[1] = "return"
        error == IF stat_fails THEN "not_found"
                 ELSE IF up.result[1] = "raise" THEN up.result[2]
                 ELSE IF env.ocr # "ok" THEN env.ocr
                 ELSE ""
        retried == error # "" /\ is_url_fetch_error(error) /\ attempt < max_retries
        s_up == IF stat_fails THEN <<>>
                ELSE [k \in 1 .. Len(up.sleeps) |-> Pause("signed_url", up.sleeps[k])]
        s_settle == IF uploaded /\ attempt > 0 THEN <<Pause("settle", 2)>> ELSE <<>>
        s_retry == IF retried THEN <<Pause("retry", retry_sleep(attempt))>> ELSE <<>>
    IN  [cache |-> IF stat_fails THEN cache ELSE up.cache,
         outcome |-> IF error = "" THEN "return"
                     ELSE IF retried THEN "retry" ELSE "raise",
         error |-> error,
         sleeps |-> s_up \o s_settle \o s_retry,
         ocr_calls |-> IF uploaded THEN 1 ELSE 0,
         uploads |-> IF stat_fails THEN 0 ELSE up.uploads,
         ids |-> IF ~stat_fails /\ up.uploads = 1 /\ env.upload_err = "" THEN 1 ELSE 0,
         file_url |-> IF uploaded THEN up.result[2] ELSE 0,
         saved_files |-> IF error = "" THEN save_results_optimized(cfg, env.save_fails)
                         ELSE {},
         save_fails |-> IF error = "" THEN env.save_fails ELSE {},
         \* what the iteration did to obtain its handle
         iter |-> [attempt |-> attempt,
                   uploads |-> IF stat_fails THEN 0 ELSE up.uploads,
                   upload_id |-> id,
                   entry_at_upload |-> IF stat_fails THEN None ELSE up.at_upload,
                   signed_requests |-> IF stat_fails THEN 0 ELSE up.signed_requests,
                   signed_sleeps |-> IF stat_fails THEN <<>> ELSE up.sleeps,
                   file_url |-> IF uploaded THEN up.result[2] ELSE 0,
                   error |-> error]]

(* The execution record x after an iteration with result r *)
step_exec(x, r) ==
    [x EXCEPT !.st = IF r.outcome = "return" THEN "returned"
                     ELSE IF r.outcome = "raise" THEN "raised" ELSE "running",
              !.attempt = IF r.outcome = "retry" THEN @ + 1 ELSE @,
              !.errs = IF r.error # "" THEN Append(@, r.error) ELSE @,
              !.error = r.error,
              !.sleeps = @ \o r.sleeps,
              !.ocr_calls = @ + r.ocr_calls,
              !.uploads = @ + r.uploads,
              !.file_url = r.file_url,
              !.saved_files = r.saved_files,
              !.save_fails = r.save_fails,
              \* the handles whose transient-fetch error was followed by a retry
              !.retried_urls = IF r.outcome = "retry" /\ r.ocr_calls = 1
                               THEN @ \cup {r.file_url} ELSE @,
              !.last_iter = Some(r.iter)]

(* A job body that numbers every job from page 1 *)
job_page_offset_zero(info) == 0

(* line 219: page_offset = file_info['page_offset'] *)
job_page_offset(info) == info.page_offset

(* lines 264-281 and 406-412: when the iteration returns, every queued     *)
(* writer was handed page_offset, and the result dict reports it           *)
report_offsets(x, r, cfg, page_offset) ==
    IF r.outcome = "return"
    THEN [x EXCEPT !.page_offset = Some(page_offset),
                   !.writer_offsets = [t \in cfg |-> page_offset]]
    ELSE x

(* What the remote services may do during one iteration *)
ExecEnvs ==
    { [upload_err |-> "", signed_fails |-> 0, signed_err |-> "", ocr |-> o,
       save_fails |-> {}] :
        o \in {"ok", "rate_limit", "fetch_3310", "generic"} }
    \cup { [upload_err |-> "upload_error", signed_fails |-> 0, signed_err |-> "",
            ocr |-> "ok", save_fails |-> {}],
           [upload_err |-> "", signed_fails |-> 3, signed_err |-> "rate_limit",
            ocr |-> "ok", save_fails |-> {}] }

(* How many errors the remote services raise during one call *)
MaxFaults == 3

env_faults(env) ==
    IF env.upload_err # "" \/ env.signed_fails > 0 \/ env.ocr # "ok" THEN 1 ELSE 0

(* The config of the calls with failing services: Markdown and text output *)
DefaultConfig == {"md", "txt"}

(* The batches handed to process_files_optimized: file paths in job order *)
Batches == { <<>>, <<1>>, <<3>>, <<1, 2>>, <<3, 1>>, <<3, 1, 2>> }

----------------------------------------------------------------------------
(* The parts of the state a specification does not use stay as constructed *)
CacheEmpty ==
    /\ upload_cache = <<>>
    /\ now = 0
    /\ next_id = 1
    /\ ticks = 0
    /\ ncalls = 0
    /\ prev_call = None
    /\ last_call = None

CacheIdle ==
    /\ fs = [f \in Files |-> [exists |-> TRUE, size_mb |-> SizeOf[f], content |-> ContentOf[f]]]
    /\ CacheEmpty

PlanIdle ==
    /\ metrics = FileMetrics(0, 0)
    /\ limits = DefaultLimits
    /\ analysis = None
    /\ plan = None
    /\ planop = <<"none">>

ExecIdle ==
    /\ pc = "idle"
    /\ files_info = <<>>
    /\ config = {}
    /\ groups = << <<>>, <<>>, <<>> >>
    /\ gi = 0
    /\ workers = 0
    /\ submitted = 0
    /\ fut = <<>>
    /\ retry = <<>>
    /\ cur = 0
    /\ group_results = EmptyResults
    /\ results = EmptyResults
    /\ adaptive_delay = base_delay
    /\ last_sleep = None
    /\ rl_event = None
    /\ completed_count = 0
    /\ faults = 0
    /\ progress = <<>>

(* No worker is in a call of _upload_file_cached of its own *)
RaceIdle == callers = <<>>

(* BatchProcessor.__init__(ocr_client, max_workers = 3) *)
default_max_workers == 3

SplitIdle ==
    /\ file_info = [pages |-> None, size_mb |-> 0, requires_split |-> FALSE]
    /\ pdf_pages = 0
    /\ split_config = [max_size_mb |-> 9600, max_pages |-> 900]
    /\ target_files_from_modal = 0
    /\ split_pc = "idle"
    /\ num_files_target = 0
    /\ files_to_process = <<>>

----------------------------------------------------------------------------
(* The planner: a file is analysed, then plans are computed for it *)
PlanInit ==
    /\ \E s \in SizeSet, p \in PageSet : metrics = FileMetrics(s, p)
    /\ limits \in LimitSet
    /\ analysis = None
    /\ plan = None
    /\ planop = <<"none">>
    /\ CacheIdle
    /\ ExecIdle
    /\ SplitIdle
    /\ RaceIdle
    /\ max_workers = default_max_workers

AnalyzeSplitNeeds ==
    /\ analysis' = Some(analyze_split_needs(metrics, limits))
    /\ plan' = None
    /\ planop' = <<"analyze_split_needs">>
    /\ UNCHANGED <<metrics, limits>>
    /\ UNCHANGED cacheVars
    /\ UNCHANGED execVars
    /\ UNCHANGED splitVars
    /\ UNCHANGED raceVars
    /\ UNCHANGED max_workers

CalculateSplitPlan ==
    /\ IsSome(analysis)
    /\ \E nf \in {None} \cup {Some(n) : n \in 1..MaxNumFiles} :
         /\ plan' = Some(calculate_split_plan(Get(analysis), nf))
         /\ planop' = <<"calculate_split_plan", nf>>
    /\ UNCHANGED <<metrics, limits, analysis>>
    /\ UNCHANGED cacheVars
    /\ UNCHANGED execVars
    /\ UNCHANGED splitVars
    /\ UNCHANGED raceVars
    /\ UNCHANGED max_workers

GetOptimalSplitPlan ==
    /\ IsSome(analysis)
    /\ plan' = get_optimal_split_plan(Get(analysis))
    /\ planop' = <<"get_optimal_split_plan">>
    /\ UNCHANGED <<metrics, limits, analysis>>
    /\ UNCHANGED cacheVars
    /\ UNCHANGED execVars
    /\ UNCHANGED splitVars
    /\ UNCHANGED raceVars
    /\ UNCHANGED max_workers

GetAlternativePlans ==
    /\ IsSome(analysis)
    /\ plan' = get_alternative_plans(Get(analysis))
    /\ planop' = <<"get_alternative_plans">>
    /\ UNCHANGED <<metrics, limits, analysis>>
    /\ UNCHANGED cacheVars
    /\ UNCHANGED execVars
    /\ UNCHANGED splitVars
    /\ UNCHANGED raceVars
    /\ UNCHANGED max_workers

PlanNext ==
    \/ AnalyzeSplitNeeds
    \/ CalculateSplitPlan
    \/ GetOptimalSplitPlan
    \/ GetAlternativePlans

SpecPlan == PlanInit /\ [][PlanNext]_vars

----------------------------------------------------------------------------
(* get_processing_plan(file_paths) of multi_batch_processor.py: the files  *)
(* are analysed, then the processing plan is generated from the summary    *)

(* Sizes in cMB and page counts of the files of a batch *)
MultiSizes == {1000, 4850, 27800}
MultiPages == {1, 10, 100, 400}

MultiFiles == { [size_mb |-> sz, total_pages |-> pg] : sz \in MultiSizes, pg \in MultiPages }

(* A batch of one or two files *)
MultiInit ==
    /\ metrics \in { <<f>> : f \in MultiFiles } \cup (MultiFiles \X MultiFiles)
    /\ limits = BatchOptimizerLimits
    /\ analysis = None
    /\ plan = None
    /\ planop = <<"none">>
    /\ CacheIdle
    /\ ExecIdle
    /\ SplitIdle
    /\ RaceIdle
    /\ max_workers = default_max_workers

AnalyzeMultipleFiles ==
    /\ planop = <<"none">>
    /\ analysis' = Some(analyze_multiple_files(metrics))
    /\ planop' = <<"analyze_multiple_files">>
    /\ UNCHANGED <<metrics, limits, plan>>
    /\ UNCHANGED cacheVars
    /\ UNCHANGED execVars
    /\ UNCHANGED splitVars
    /\ UNCHANGED raceVars
    /\ UNCHANGED max_workers

GenerateProcessingPlan ==
    /\ planop = <<"analyze_multiple_files">>
    /\ plan' = Some(generate_processing_plan(Get(analysis)))
    /\ planop' = <<"generate_processing_plan">>
    /\ UNCHANGED <<metrics, limits, analysis>>
    /\ UNCHANGED cacheVars
    /\ UNCHANGED execVars
    /\ UNCHANGED splitVars
    /\ UNCHANGED raceVars
    /\ UNCHANGED max_workers

MultiNext == AnalyzeMultipleFiles \/ GenerateProcessingPlan

SpecMulti == MultiInit /\ [][MultiNext]_vars

----------------------------------------------------------------------------
(* PreDivisionValidator (pre_division_validator.py): the sizes of the      *)
(* files of a division are estimated before any file is written.  Sizes    *)
(* are in cMB.                                                             *)

(* PreDivisionValidator(max_size_mb=50.0), max_pages = 135 *)
PreDivisionLimits == [max_size_mb |-> 5000, max_pages |-> 135]

(* The uniform distribution: base_pages + 1 for the first extra_pages files *)
pages_distribution(total_pages, num_files) ==
    [i \in 1..num_files |->
        (total_pages \div num_files) + (IF i - 1 < total_pages % num_files THEN 1 ELSE 0)]

(* pages * size_per_page * overhead_factor, overhead_factor = 1.03 *)
estimated_size(size_mb, total_pages, pages) ==
    Rat(pages * size_mb * 103, total_pages * 100)

(* _calculate_optimal_files: 90% of each limit *)
calculate_optimal_files(V, size_mb, total_pages) ==
    Max2(CeilDiv(size_mb * 10, V.max_size_mb * 9),
         CeilDiv(total_pages * 10, V.max_pages * 9))

(* The first page of file i: 1 + the pages of the files before it *)
RECURSIVE current_page(_, _)
current_page(dist, i) ==
    IF i = 1 THEN 1 ELSE current_page(dist, i - 1) + dist[i - 1]

(* The largest estimated size of a list of estimated files *)
RECURSIVE max_estimated_size(_)
max_estimated_size(files) ==
    IF Len(files) = 1 THEN files[1].estimated_size_mb
    ELSE RMax(files[1].estimated_size_mb, max_estimated_size(Tail(files)))

(* analyze_division_plan with the uniform distribution:                    *)
(* <<"return", analysis>>, or <<"raise", error>> for a file without pages  *)
analyze_division_plan(V, size_mb, total_pages, num_files) ==
    IF total_pages = 0 THEN <<"raise", "ZeroDivisionError">>
    ELSE
    LET dist == pages_distribution(total_pages, num_files)
        estimated_files ==
            [i \in 1..num_files |->
                LET est == estimated_size(size_mb, total_pages, dist[i])
                    exceeds_limit == RLess(RInt(V.max_size_mb), est)
                IN  [index |-> i - 1,
                     estimated_size_mb |-> est,
                     pages |-> dist[i],
                     page_range |-> <<current_page(dist, i), current_page(dist, i) + dist[i] - 1>>,
                     exceeds_limit |-> exceeds_limit,
                     recommended_split |->
                         IF exceeds_limit
                         THEN Some(CeilDiv(est[1], est[2] * V.max_size_mb))
                         ELSE None]]
        files_exceeding_limits ==
            Cardinality({ i \in 1..num_files : estimated_files[i].exceeds_limit })
        largest == max_estimated_size(estimated_files)
    IN  <<"return",
          [original_size_mb |-> size_mb,
           total_pages |-> total_pages,
           requested_num_files |-> num_files,
           estimated_files |-> estimated_files,
           all_within_limits |-> (files_exceeding_limits = 0),
           files_exceeding_limits |-> files_exceeding_limits,
           recommended_num_files |-> calculate_optimal_files(V, size_mb, total_pages),
           size_efficiency |->
               IF RLess(RInt(0), largest)
               THEN RMin(RInt(1), Rat(V.max_size_mb * largest[2], largest[1]))
               ELSE RInt(1)]>>

(* One entry of the list of get_division_recommendations *)
division_option(V, a, type, num_files) ==
    LET o == analyze_division_plan(V, a.original_size_mb, a.total_pages, num_files)[2]
    IN  [type |-> type,
         num_files |-> num_files,
         estimated_max_size |-> max_estimated_size(o.estimated_files),
         efficiency |-> o.size_efficiency,
         all_within_limits |-> o.all_within_limits]

(* r put into a list sorted by falling efficiency, behind the equal ones *)
RECURSIVE insert_by_efficiency(_, _)
insert_by_efficiency(s, r) ==
    IF s = <<>> THEN <<r>>
    ELSE IF RLess(Head(s).efficiency, r.efficiency) THEN <<r>> \o s
    ELSE <<Head(s)>> \o insert_by_efficiency(Tail(s), r)

(* recommendations.sort(key=efficiency, reverse=True): a stable sort *)
RECURSIVE sort_recommendations(_)
sort_recommendations(s) ==
    IF s = <<>> THEN <<>>
    ELSE insert_by_efficiency(sort_recommendations(SubSeq(s, 1, Len(s) - 1)), s[Len(s)])

(* get_division_recommendations(analysis) *)
get_division_recommendations(V, a) ==
    LET conservative_files == a.recommended_num_files + 2
        fast_files == Max2(2, a.recommended_num_files - 1)
        recommended ==
            IF a.recommended_num_files # a.requested_num_files
            THEN <<division_option(V, a, "recommended", a.recommended_num_files)>>
            ELSE <<>>
        conservative ==
            IF conservative_files <= 20
            THEN <<division_option(V, a, "conservative", conservative_files)>>
            ELSE <<>>
        fast ==
            IF a.original_size_mb > 10000 /\ fast_files # a.recommended_num_files
            THEN LET f == division_option(V, a, "fast", fast_files)
                 IN  IF f.all_within_limits THEN <<f>> ELSE <<>>
            ELSE <<>>
    IN  sort_recommendations(recommended \o conservative \o fast)

(* validate_before_split: <<"return", <<is_safe, analysis>> >> or a raise *)
validate_before_split(V, size_mb, total_pages, num_files) ==
    LET r == analyze_division_plan(V, size_mb, total_pages, num_files)
    IN  IF r[1] = "raise" THEN r
        ELSE <<"return", <<r[2].all_within_limits, r[2]>> >>

(* The files given to the validator and the numbers of files asked for *)
PreSizes == {1000, 10000, 26500}
PrePages == {0, 1, 4, 10, 100, 400}
MaxRequested == 6

PreInit ==
    /\ \E sz \in PreSizes, pg \in PrePages : metrics = [size_mb |-> sz, total_pages |-> pg]
    /\ limits = PreDivisionLimits
    /\ analysis = None
    /\ plan = None
    /\ planop = <<"none">>
    /\ CacheIdle
    /\ ExecIdle
    /\ SplitIdle
    /\ RaceIdle
    /\ max_workers = default_max_workers

(* validate_before_split(file_path, num_files): analysis holds its result *)
ValidateBeforeSplit ==
    /\ \E num_files \in 1..MaxRequested :
         /\ analysis' = Some(validate_before_split(limits, metrics.size_mb,
                                                   metrics.total_pages, num_files))
         /\ planop' = <<"validate_before_split", num_files>>
    /\ plan' = None
    /\ UNCHANGED <<metrics, limits>>
    /\ UNCHANGED cacheVars
    /\ UNCHANGED execVars
    /\ UNCHANGED splitVars
    /\ UNCHANGED raceVars
    /\ UNCHANGED max_workers

(* get_division_recommendations on the analysis of the validation *)
GetDivisionRecommendations ==
    /\ planop[1] = "validate_before_split"
    /\ Get(analysis)[1] = "return"
    /\ plan' = Some(get_division_recommendations(limits, Get(analysis)[2][2]))
    /\ planop' = <<"get_division_recommendations">>
    /\ UNCHANGED <<metrics, limits, analysis>>
    /\ UNCHANGED cacheVars
    /\ UNCHANGED execVars
    /\ UNCHANGED splitVars
    /\ UNCHANGED raceVars
    /\ UNCHANGED max_workers

PreNext == ValidateBeforeSplit \/ GetDivisionRecommendations

SpecPre == PreInit /\ [][PreNext]_vars

----------------------------------------------------------------------------
(* The upload cache called directly, with time passing between the calls *)
(* A caller invokes _upload_file_cached(f, force_fresh) *)
UploadFileCached ==
    /\ ncalls < MaxCalls
    /\ \E f \in Files, force_fresh \in BOOLEAN, env \in CallEnvs :
         \* the clock is read for the expiry check only when an entry is found
         /\ env.d_check = 0
              \/ (~force_fresh /\ file_hash(f, fs[f].content) \in DOMAIN upload_cache)
         /\ LET r == upload_file_cached(upload_cache, now, f, fs[f].content,
                                        force_fresh, env, next_id)
            IN  /\ upload_cache' = r.cache
                /\ now' = r.t_end
                /\ next_id' = next_id + (IF r.uploads = 1 /\ env.upload_err = "" THEN 1 ELSE 0)
                /\ prev_call' = last_call
                /\ last_call' = Some([file |-> f, content |-> fs[f].content,
                                      force_fresh |-> force_fresh, read_ok |-> env.read_ok,
                                      before |-> r.before, t_call |-> r.t_call,
                                      t_lookup |-> r.t_lookup, result |-> r.result,
                                      uploads |-> r.uploads,
                                      signed_requests |-> r.signed_requests,
                                      sleeps |-> r.sleeps, t_end |-> r.t_end])
    /\ ncalls' = ncalls + 1
    /\ UNCHANGED <<fs, ticks>>
    /\ UNCHANGED planVars
    /\ UNCHANGED splitVars
    /\ UNCHANGED raceVars
    /\ UNCHANGED max_workers
    /\ UNCHANGED execVars

(* Time passes between two calls *)
Tick ==
    /\ ticks < MaxTicks
    /\ \E d \in TickSteps : now' = now + d
    /\ ticks' = ticks + 1
    /\ UNCHANGED <<fs, upload_cache, next_id, ncalls, prev_call, last_call>>
    /\ UNCHANGED planVars
    /\ UNCHANGED splitVars
    /\ UNCHANGED raceVars
    /\ UNCHANGED max_workers
    /\ UNCHANGED execVars

CacheInit == PlanIdle /\ CacheIdle /\ ExecIdle /\ SplitIdle /\ RaceIdle
    /\ max_workers = default_max_workers

CacheNext == UploadFileCached \/ Tick

SpecCache == CacheInit /\ [][CacheNext]_vars

----------------------------------------------------------------------------
(* The batch execution engine: one call of process_files_optimized, the    *)
(* collector (the calling thread) and the pool workers of the current group *)

(* The jobs of the batch, once their execution records exist *)
Jobs == 1 .. Len(fut)

(* How many job bodies of the current group the pool is running *)
running_in_pool == Cardinality({j \in Jobs : fut[j].st = "running"})

(* A file of the batch is deleted by its owner while the processor exists *)
RemoveFile ==
    /\ pc \notin {"done", "raised"}
    /\ \A f \in Files : fs[f].exists
    /\ \E f \in Files : fs' = [fs EXCEPT ![f].exists = FALSE]
    /\ UNCHANGED <<upload_cache, now, next_id, ticks, ncalls, prev_call, last_call>>
    /\ UNCHANGED execVars
    /\ UNCHANGED planVars
    /\ UNCHANGED splitVars
    /\ UNCHANGED raceVars
    /\ UNCHANGED max_workers

(* process_files_optimized(files_info, config, progress_callback) up to    *)
(* the first group: _group_files_by_size reads the size of every file      *)
(* (line 113); a file that is not there makes stat() raise out of the call *)
ProcessFiles(batch, cfg) ==
    /\ pc = "idle"
    /\ config' = cfg
    /\   LET missing == {i \in 1 .. Len(batch) : ~fs[batch[i]].exists}
             first_missing == IF missing = {} THEN Len(batch) + 1
                              ELSE CHOOSE i \in missing : \A j \in missing : i <= j
             info == [i \in 1 .. Len(batch) |->
                        [file_path |-> batch[i],
                         page_offset |-> PageOffsetOf[batch[i]],
                         size_mb |-> IF i < first_missing THEN fs[batch[i]].size_mb
                                     ELSE 0]]
             grps == group_files_by_size(info)
             ng == next_group(grps, 0)
         IN  /\ files_info' = info
             /\ IF missing # {}
                THEN /\ pc' = "raised"
                     /\ UNCHANGED <<groups, gi, workers, fut, retry>>
                ELSE /\ groups' = grps
                     /\ gi' = ng
                     /\ workers' = IF ng = 4 THEN workers
                                    ELSE get_optimal_workers(GroupNames[ng], Len(grps[ng]))
                     /\ fut' = [i \in 1 .. Len(batch) |-> NewExec]
                     /\ retry' = [i \in 1 .. Len(batch) |-> NewExec]
                     /\ pc' = IF ng = 4 THEN "done" ELSE "submit"
    /\ UNCHANGED <<submitted, cur, group_results, results, adaptive_delay,
                   last_sleep, rl_event, completed_count, faults, progress>>
    /\ UNCHANGED cacheVars
    /\ UNCHANGED planVars
    /\ UNCHANGED splitVars
    /\ UNCHANGED raceVars
    /\ UNCHANGED max_workers

ProcessFilesOptimized == \E batch \in Batches : ProcessFiles(batch, DefaultConfig)

(* lines 160-174: sleep the staggering delay (not before the first job of  *)
(* the group), then submit the job to the pool                             *)
Submit ==
    /\ pc = "submit"
    /\ LET grp == groups[gi]
           i == grp[submitted + 1]
       IN  /\ last_sleep' =
                IF submitted > 0
                THEN Some(Pause("stagger",
                                RMax(get_delay_for_file(files_info[i].size_mb),
                                     adaptive_delay)))
                ELSE last_sleep
           /\ fut' = [fut EXCEPT ![i].st = "queued"]
           /\ submitted' = submitted + 1
           /\ pc' = IF submitted + 1 = Len(grp) THEN "collect" ELSE "submit"
    /\ UNCHANGED <<files_info, config, groups, gi, workers, retry, cur, group_results, results,
                   adaptive_delay, rl_event, completed_count, faults, progress>>
    /\ UNCHANGED cacheVars
    /\ UNCHANGED planVars
    /\ UNCHANGED splitVars
    /\ UNCHANGED raceVars
    /\ UNCHANGED max_workers

(* A free worker of the pool takes the oldest queued job *)
PoolStart(i) ==
    /\ pc \in {"submit", "collect", "retry"}
    /\ fut[i].st = "queued"
    /\ running_in_pool < workers
    /\ \A j \in Jobs : fut[j].st = "queued" => i <= j
    /\ fut' = [fut EXCEPT ![i].st = "running", ![i].runs = @ + 1]
    /\ UNCHANGED <<pc, files_info, config, groups, gi, workers, submitted, retry, cur, group_results,
                   results, adaptive_delay, last_sleep, rl_event, completed_count,
                   faults, progress>>
    /\ UNCHANGED cacheVars
    /\ UNCHANGED planVars
    /\ UNCHANGED splitVars
    /\ UNCHANGED raceVars
    /\ UNCHANGED max_workers

(* A worker runs one iteration of the attempt loop of its job *)
PoolAttemptEnv(i, env) ==
    /\ pc \in {"submit", "collect", "retry"}
    /\ fut[i].st = "running"
    /\   LET f == files_info[i].file_path
             r == process_attempt(upload_cache, now, f, fs[f], fut[i].attempt,
                                  env, next_id, config)
         IN  /\ faults + env_faults(env) <= MaxFaults
             /\ faults' = faults + env_faults(env)
             /\ upload_cache' = r.cache
             /\ next_id' = next_id + r.ids
             /\ fut' = [fut EXCEPT ![i] =
                           report_offsets(step_exec(@, r), r, config,
                                          job_page_offset(files_info[i]))]
    /\ UNCHANGED <<pc, files_info, config, groups, gi, workers, submitted, retry, cur, group_results,
                   results, adaptive_delay, last_sleep, rl_event, completed_count,
                   progress>>
    /\ UNCHANGED <<fs, now, ticks, ncalls, prev_call, last_call>>
    /\ UNCHANGED planVars
    /\ UNCHANGED splitVars
    /\ UNCHANGED raceVars
    /\ UNCHANGED max_workers

PoolAttempt(i) == \E env \in ExecEnvs : PoolAttemptEnv(i, env)

(* The results of a group taken for those of the batch *)
replace_results(res, gr) == gr

(* lines 96-97: results['success'].extend(...), results['failed'].extend(...) *)
extend_results(res, gr) ==
    [success |-> res.success \o gr.success,
     failed |-> res.failed \o gr.failed]

(* The collector has recorded an outcome: with gr the results of the group *)
(* and cc the completed count, it waits for the next future, or the group  *)
(* is finished (all_done), its results are added to the batch's and the    *)
(* next group with files starts, or the call returns                       *)
AfterOutcome(gr, cc, all_done) ==
    IF ~all_done
    THEN /\ pc' = "collect"
         /\ group_results' = gr
         /\ completed_count' = cc
         /\ UNCHANGED <<gi, workers, results, submitted>>
    ELSE LET ng == next_group(groups, gi)
         IN  /\ results' = extend_results(results, gr)
             /\ group_results' = EmptyResults
             /\ gi' = ng
             /\ workers' = IF ng = 4 THEN workers
                            ELSE get_optimal_workers(GroupNames[ng], Len(groups[ng]))
             /\ submitted' = 0
             /\ completed_count' = IF ng = 4 THEN cc ELSE 0
             /\ pc' = IF ng = 4 THEN "done" ELSE "submit"

(* lines 178-212: as_completed yields a finished future of the group *)
Collect(i) ==
    /\ pc = "collect"
    /\ fut[i].st \in {"returned", "raised"}
    /\ ~fut[i].collected
    /\ LET f == files_info[i].file_path
           total == Len(groups[gi])
           others_done == \A j \in Jobs : j # i /\ fut[j].st # "new" => fut[j].collected
       IN  IF fut[i].st = "returned"
           THEN /\ fut' = [fut EXCEPT ![i].collected = TRUE]
                /\ adaptive_delay' = on_success(adaptive_delay)
                /\ progress' = Append(progress, <<gi, completed_count + 1, total>>)
                /\ AfterOutcome([group_results EXCEPT
                                   !.success = Append(@, [file |-> f,
                                        saved_files |-> fut[i].saved_files,
                                        page_offset |-> Get(fut[i].page_offset)])],
                                completed_count + 1, others_done)
                /\ UNCHANGED <<retry, cur, last_sleep, rl_event>>
           ELSE IF is_rate_limit_error(fut[i].error)
           THEN /\ fut' = [fut EXCEPT ![i].collected = TRUE]
                /\ adaptive_delay' = on_rate_limited(adaptive_delay)
                /\ last_sleep' = Some(Pause("rate_limit",
                                            rate_limit_sleep(on_rate_limited(adaptive_delay))))
                /\ rl_event' = Some([job |-> i, before |-> adaptive_delay])
                /\ retry' = [retry EXCEPT ![i].st = "running", ![i].runs = @ + 1]
                /\ cur' = i
                /\ pc' = "retry"
                /\ UNCHANGED <<gi, workers, results, submitted, group_results,
                               completed_count, progress>>
           ELSE /\ fut' = [fut EXCEPT ![i].collected = TRUE]
                /\ progress' = Append(progress, <<gi, completed_count + 1, total>>)
                /\ AfterOutcome([group_results EXCEPT
                                   !.failed = Append(@, [file |-> f,
                                                         error |-> fut[i].error])],
                                completed_count + 1, others_done)
                /\ UNCHANGED <<retry, cur, adaptive_delay, last_sleep, rl_event>>
    /\ UNCHANGED <<files_info, config, groups, faults>>
    /\ UNCHANGED cacheVars
    /\ UNCHANGED planVars
    /\ UNCHANGED splitVars
    /\ UNCHANGED raceVars
    /\ UNCHANGED max_workers

(* The first error of the job kept for its entry in failed *)
inline_error_str_first(error_str, retry_e) == error_str

(* line 203: error_str = str(retry_e), the error of the inline retry *)
inline_error_str(error_str, retry_e) == retry_e

(* lines 198-203: the collector runs one iteration of the job body inline; *)
(* when the body returns the result is appended and `continue` goes to the *)
(* next future; when it raises the job is appended to failed               *)
InlineAttemptEnv(env) ==
    /\ pc = "retry"
    /\   LET i == cur
             f == files_info[i].file_path
             total == Len(groups[gi])
             r == process_attempt(upload_cache, now, f, fs[f], retry[i].attempt,
                                  env, next_id, config)
             all_done == \A j \in Jobs : fut[j].st # "new" => fut[j].collected
         IN  /\ faults + env_faults(env) <= MaxFaults
             /\ faults' = faults + env_faults(env)
             /\ upload_cache' = r.cache
             /\ next_id' = next_id + r.ids
             /\ retry' = [retry EXCEPT ![i] =
                             report_offsets(step_exec(@, r), r, config,
                                            job_page_offset(files_info[i]))]
             /\ IF r.outcome = "retry"
                THEN UNCHANGED <<pc, gi, workers, results, submitted, group_results,
                                 completed_count, progress>>
                ELSE IF r.outcome = "return"
                THEN /\ AfterOutcome([group_results EXCEPT
                                        !.success = Append(@, [file |-> f,
                                             saved_files |-> r.saved_files,
                                             page_offset |->
                                                 job_page_offset(files_info[i])])],
                                     completed_count, all_done)
                     /\ UNCHANGED progress
                ELSE /\ progress' = Append(progress, <<gi, completed_count + 1, total>>)
                     /\ AfterOutcome([group_results EXCEPT
                                        !.failed = Append(@, [file |-> f,
                                             error |-> inline_error_str(fut[i].error,
                                                                        r.error)])],
                                     completed_count + 1, all_done)
    /\ UNCHANGED <<files_info, config, groups, fut, cur, adaptive_delay, last_sleep, rl_event>>
    /\ UNCHANGED <<fs, now, ticks, ncalls, prev_call, last_call>>
    /\ UNCHANGED planVars
    /\ UNCHANGED splitVars
    /\ UNCHANGED raceVars
    /\ UNCHANGED max_workers

InlineAttempt == \E env \in ExecEnvs : InlineAttemptEnv(env)

Init == PlanIdle /\ CacheIdle /\ ExecIdle /\ SplitIdle /\ RaceIdle
    /\ max_workers = default_max_workers

Next ==
    \/ RemoveFile
    \/ ProcessFilesOptimized
    \/ Submit
    \/ \E i \in Jobs : PoolStart(i)
    \/ \E i \in Jobs : PoolAttempt(i)
    \/ \E i \in Jobs : Collect(i)
    \/ InlineAttempt

Spec == Init /\ [][Next]_vars

(* Every blocking call returns and every thread is scheduled: the          *)
(* submission loop, the pool workers, the collection loop and the inline   *)
(* retry keep taking their steps.  Nothing obliges the caller to call or   *)
(* the owner of a file to delete it.  A batch has at most as many jobs as  *)
(* there are files.                                                        *)
Fairness ==
    /\ WF_vars(Submit)
    /\ WF_vars(InlineAttempt)
    /\ \A i \in Files : /\ WF_vars(i \in Jobs /\ PoolStart(i))
                        /\ WF_vars(i \in Jobs /\ PoolAttempt(i))
                        /\ WF_vars(i \in Jobs /\ Collect(i))

SpecFair == Init /\ [][Next]_vars /\ Fairness

----------------------------------------------------------------------------
(* Grouping and pool sizing called on their own: _group_files_by_size on a *)
(* batch of files of any sizes, then _get_optimal_workers for the groups   *)
(* that have files                                                         *)

(* The longest batch *)
MaxBatch == 5

(* File sizes in MB, on both sides of the bucket limits 10 and 30 *)
GroupSizes == {4, 9, 10, 29, 30, 40}

GroupInit ==
    /\ \E n \in 0 .. MaxBatch : \E sizes \in [1 .. n -> GroupSizes] :
         fs = [f \in 1 .. n |-> [exists |-> TRUE, size_mb |-> sizes[f], content |-> f]]
    /\ CacheEmpty
    /\ PlanIdle
    /\ ExecIdle
    /\ SplitIdle
    /\ RaceIdle
    /\ max_workers = default_max_workers

(* _group_files_by_size(files_info) for the batch of all the files *)
GroupFilesBySize ==
    /\ pc = "idle"
    /\ LET info == [i \in 1 .. Len(fs) |-> [file_path |-> i, size_mb |-> fs[i].size_mb]]
       IN  /\ files_info' = info
           /\ groups' = group_files_by_size(info)
    /\ pc' = "grouped"
    /\ UNCHANGED <<config, gi, workers, submitted, fut, retry, cur, group_results, results,
                   adaptive_delay, last_sleep, rl_event, completed_count, faults,
                   progress>>
    /\ UNCHANGED cacheVars
    /\ UNCHANGED planVars
    /\ UNCHANGED splitVars
    /\ UNCHANGED raceVars
    /\ UNCHANGED max_workers

(* _get_optimal_workers(group_name, len(files_group)) for a group with files *)
GetOptimalWorkers ==
    /\ pc = "grouped"
    /\ \E g \in 1 .. 3 :
         /\ groups[g] # <<>>
         /\ gi' = g
         /\ workers' = get_optimal_workers(GroupNames[g], Len(groups[g]))
    /\ UNCHANGED <<pc, files_info, config, groups, submitted, fut, retry, cur, group_results,
                   results, adaptive_delay, last_sleep, rl_event, completed_count,
                   faults, progress>>
    /\ UNCHANGED cacheVars
    /\ UNCHANGED planVars
    /\ UNCHANGED splitVars
    /\ UNCHANGED raceVars
    /\ UNCHANGED max_workers

GroupNext == GroupFilesBySize \/ GetOptimalWorkers

SpecGroup == GroupInit /\ [][GroupNext]_vars

(* The values of max_workers a processor is constructed with: the default  *)
(* 3 of __init__, and 2, 3 or 4 from create_optimized_processor            *)
WorkerOptions == {2, 3, 4}

(* OCRBatchProcessor(ocr_client, max_workers = m) / BatchProcessor(...) *)
WidthInit ==
    /\ \E n \in 0 .. MaxBatch : \E sizes \in [1 .. n -> GroupSizes] :
         fs = [f \in 1 .. n |-> [exists |-> TRUE, size_mb |-> sizes[f], content |-> f]]
    /\ CacheEmpty
    /\ PlanIdle
    /\ ExecIdle
    /\ SplitIdle
    /\ RaceIdle
    /\ max_workers \in WorkerOptions

SpecWidth == WidthInit /\ [][GroupNext]_vars

----------------------------------------------------------------------------
(* The engine with services that answer and output writers that may raise: *)
(* any config, any set of failing writes in each job                       *)

SaveConfigs == SUBSET {"md", "txt", "html", "images"}

SaveBatches == { <<1>>, <<3, 1>> }

SaveEnvs(cfg) ==
    { [upload_err |-> "", signed_fails |-> 0, signed_err |-> "", ocr |-> "ok",
       save_fails |-> fails] : fails \in SUBSET cfg }

SaveNext ==
    \/ \E batch \in SaveBatches, cfg \in SaveConfigs : ProcessFiles(batch, cfg)
    \/ Submit
    \/ \E i \in Jobs : PoolStart(i)
    \/ \E i \in Jobs : \E env \in SaveEnvs(config) : PoolAttemptEnv(i, env)
    \/ \E i \in Jobs : Collect(i)

SpecSave == Init /\ [][SaveNext]_vars

----------------------------------------------------------------------------
(* The engine on a group wider than its pool: three files of the large     *)
(* group, whose pool has two workers                                       *)
LargeSizeOf == <<40, 40, 40>>

PoolBatches == { <<1, 2, 3>> }

PoolInit ==
    /\ fs = [f \in Files |-> [exists |-> TRUE, size_mb |-> LargeSizeOf[f],
                              content |-> ContentOf[f]]]
    /\ CacheEmpty
    /\ PlanIdle
    /\ ExecIdle
    /\ SplitIdle
    /\ RaceIdle
    /\ max_workers = default_max_workers

PoolNext ==
    \/ \E batch \in PoolBatches : ProcessFiles(batch, DefaultConfig)
    \/ Submit
    \/ \E i \in Jobs : PoolStart(i)
    \/ \E i \in Jobs : PoolAttempt(i)
    \/ \E i \in Jobs : Collect(i)
    \/ InlineAttempt

SpecPool == PoolInit /\ [][PoolNext]_vars

----------------------------------------------------------------------------
(* The engine on batches with files of all three groups: a small, a medium *)
(* and a large file                                                        *)
MixedSizeOf == <<4, 20, 40>>

OrderBatches == { <<1, 2, 3>>, <<1, 3>>, <<2, 1>> }

OrderInit ==
    /\ fs = [f \in Files |-> [exists |-> TRUE, size_mb |-> MixedSizeOf[f],
                              content |-> ContentOf[f]]]
    /\ CacheEmpty
    /\ PlanIdle
    /\ ExecIdle
    /\ SplitIdle
    /\ RaceIdle
    /\ max_workers = default_max_workers

OrderNext ==
    \/ \E batch \in OrderBatches : ProcessFiles(batch, DefaultConfig)
    \/ Submit
    \/ \E i \in Jobs : PoolStart(i)
    \/ \E i \in Jobs : PoolAttempt(i)
    \/ \E i \in Jobs : Collect(i)
    \/ InlineAttempt

SpecOrder == OrderInit /\ [][OrderNext]_vars

----------------------------------------------------------------------------
(* The engine with signed-URL requests that fail once, twice or always,    *)
(* with an upload error or a rate-limit error                              *)
HandleEnvs ==
    { [upload_err |-> "", signed_fails |-> k, signed_err |-> e, ocr |-> o,
       save_fails |-> {}] :
        k \in 0 .. 3, e \in {"upload_error", "rate_limit"}, o \in {"ok", "fetch_3310"} }

HandleBatches == { <<1>>, <<1, 2>> }

HandleNext ==
    \/ \E batch \in HandleBatches : ProcessFiles(batch, DefaultConfig)
    \/ Submit
    \/ \E i \in Jobs : PoolStart(i)
    \/ \E i \in Jobs : \E env \in HandleEnvs : PoolAttemptEnv(i, env)
    \/ \E i \in Jobs : Collect(i)
    \/ \E env \in HandleEnvs : InlineAttemptEnv(env)

SpecHandle == Init /\ [][HandleNext]_vars

----------------------------------------------------------------------------
(* The submission loop of OCRBatchProcessor._process_group_concurrent      *)
(* (batch_processor.py lines 456-466): the sleep before the 2nd and later  *)
(* jobs of a group is _get_delay_for_file(size_mb) alone                   *)
UnifiedSubmit ==
    /\ pc = "submit"
    /\ LET grp == groups[gi]
           i == grp[submitted + 1]
       IN  /\ last_sleep' =
                IF submitted > 0
                THEN Some(Pause("stagger", get_delay_for_file(files_info[i].size_mb)))
                ELSE last_sleep
           /\ fut' = [fut EXCEPT ![i].st = "queued"]
           /\ submitted' = submitted + 1
           /\ pc' = IF submitted + 1 = Len(grp) THEN "collect" ELSE "submit"
    /\ UNCHANGED <<files_info, config, groups, gi, workers, retry, cur, group_results, results,
                   adaptive_delay, rl_event, completed_count, faults, progress>>
    /\ UNCHANGED cacheVars
    /\ UNCHANGED planVars
    /\ UNCHANGED splitVars
    /\ UNCHANGED raceVars
    /\ UNCHANGED max_workers

(* File sizes in MB on both sides of the tier limit 5, two of them in the  *)
(* small group                                                             *)
StaggerSizeOf == <<4, 7, 40>>

StaggerBatches == { <<1, 2>>, <<2, 1>>, <<3, 1, 2>> }

StaggerInit ==
    /\ fs = [f \in Files |-> [exists |-> TRUE, size_mb |-> StaggerSizeOf[f],
                              content |-> ContentOf[f]]]
    /\ CacheEmpty
    /\ PlanIdle
    /\ ExecIdle
    /\ SplitIdle
    /\ RaceIdle
    /\ max_workers = default_max_workers

(* BatchProcessor of performance_optimizer.py *)
StaggerNext ==
    \/ \E batch \in StaggerBatches : ProcessFiles(batch, DefaultConfig)
    \/ Submit
    \/ \E i \in Jobs : PoolStart(i)
    \/ \E i \in Jobs : PoolAttempt(i)
    \/ \E i \in Jobs : Collect(i)
    \/ InlineAttempt

SpecStagger == StaggerInit /\ [][StaggerNext]_vars

(* OCRBatchProcessor of batch_processor.py *)
UnifiedNext ==
    \/ \E batch \in StaggerBatches : ProcessFiles(batch, DefaultConfig)
    \/ UnifiedSubmit
    \/ \E i \in Jobs : PoolStart(i)
    \/ \E i \in Jobs : PoolAttempt(i)
    \/ \E i \in Jobs : Collect(i)
    \/ InlineAttempt

SpecUnified == StaggerInit /\ [][UnifiedNext]_vars

----------------------------------------------------------------------------
(* Job expansion: OCRBatchProcessor.process_with_split (batch_processor.py) *)
(* and MistralOCRClient.split_pdf                                           *)

(* The largest number of files chosen in a dialog *)
MaxTarget == 6

(* MAX_SIZE_MB and MAX_PAGES of OCRBatchProcessor: 100 MB x 0.96 in cMB,    *)
(* int(1000 x 0.90) pages                                                   *)
MAX_SIZE_MB == 9600
MAX_PAGES == 900

(* OCRBatchProcessor._calculate_split_target *)
calculate_split_target(info, cfg, modal) ==
    IF modal # 0 THEN modal
    ELSE LET num_files_by_pages ==
                 IF IsSome(info.pages) THEN CeilDiv(Get(info.pages), cfg.max_pages) ELSE 1
             num_files_by_size == CeilDiv(info.size_mb, cfg.max_size_mb)
         IN  Max2(Max2(num_files_by_pages, num_files_by_size), 1)

(* What the pre-division check and its dialog answer: nothing to change,    *)
(* cancel, or another number of files                                       *)
PreOutcomes == { <<"keep">>, <<"cancel">> } \cup { <<"adjust", n>> : n \in 1 .. MaxTarget }

(* OCRBatchProcessor._pre_validate_split *)
pre_validate_split(target, pre) ==
    IF pre[1] = "cancel" THEN 0
    ELSE IF pre[1] = "adjust" THEN pre[2]
    ELSE target

(* A split whose files end one page later, on the first page of the next   *)
split_pdf_inclusive_end(total_pages, max_pages_per_file) ==
    [k \in 1 .. CeilDiv(total_pages, max_pages_per_file) |->
        [first |-> (k - 1) * max_pages_per_file + 1,
         last |-> Min2(k * max_pages_per_file + 1, total_pages)]]

(* MistralOCRClient.split_pdf: one file for each i in                       *)
(* range(0, total_pages, max_pages_per_file), named by its first and last   *)
(* page; max_pages_per_file > 0                                              *)
split_pdf(total_pages, max_pages_per_file) ==
    [k \in 1 .. CeilDiv(total_pages, max_pages_per_file) |->
        [first |-> (k - 1) * max_pages_per_file + 1,
         last |-> Min2(k * max_pages_per_file, total_pages)]]

(* OCRBatchProcessor.process_with_split.  The size of a split file is what  *)
(* the file system reports of it and is left out of the jobs.               *)
process_with_split(info, cfg, modal, pdf, pre) ==
    IF ~info.requires_split
    THEN [pc |-> "returned", num_files_target |-> 0,
          files |-> << [file_path |-> <<"original">>, page_offset |-> 0,
                        pages |-> info.pages] >>]
    ELSE
    LET target == pre_validate_split(calculate_split_target(info, cfg, modal), pre)
        total_pages == IF IsSome(info.pages) THEN Get(info.pages)
                       ELSE (info.size_mb * 4) \div 100
        pages_per_file == CeilDiv(total_pages, target)
    IN  IF target = 0
        THEN [pc |-> "returned", num_files_target |-> 0, files |-> <<>>]
        ELSE IF pages_per_file = 0
        \* range() with a step of zero raises ValueError in split_pdf
        THEN [pc |-> "raised", num_files_target |-> target, files |-> <<>>]
        ELSE LET split_info == split_pdf(pdf, pages_per_file)
             IN  [pc |-> "returned", num_files_target |-> target,
                  files |-> [idx \in 1 .. Len(split_info) |->
                      LET start_page == (idx - 1) * pages_per_file
                          end_page == Min2(start_page + pages_per_file, total_pages)
                      IN  [file_path |-> <<"split", split_info[idx]>>,
                           page_offset |-> start_page,
                           pages |-> Max2(0, end_page - start_page)]]]

(* Inputs: sizes in cMB, page counts, the limits of the config *)
SplitSizes == {10, 300, 5000, 10000}
SplitPages == {0, 1, 3, 10, 200}
SplitConfigs == { [max_size_mb |-> MAX_SIZE_MB, max_pages |-> MAX_PAGES],
                  [max_size_mb |-> 4800, max_pages |-> 135] }

(* file_info knows the page count of the PDF or has none *)
SplitInit ==
    /\ pdf_pages \in SplitPages
    /\ \E s \in SplitSizes, r \in BOOLEAN, p \in {None, Some(pdf_pages)} :
          file_info = [pages |-> p, size_mb |-> s, requires_split |-> r]
    /\ split_config \in SplitConfigs
    /\ target_files_from_modal \in 0 .. MaxTarget
    /\ split_pc = "idle"
    /\ num_files_target = 0
    /\ files_to_process = <<>>
    /\ PlanIdle
    /\ CacheIdle
    /\ ExecIdle
    /\ RaceIdle
    /\ max_workers = default_max_workers

ProcessWithSplit ==
    /\ split_pc = "idle"
    /\ \E pre \in PreOutcomes :
         LET r == process_with_split(file_info, split_config, target_files_from_modal,
                                     pdf_pages, pre)
         IN  /\ split_pc' = r.pc
             /\ num_files_target' = r.num_files_target
             /\ files_to_process' = r.files
    /\ UNCHANGED <<file_info, pdf_pages, split_config, target_files_from_modal>>
    /\ UNCHANGED planVars
    /\ UNCHANGED cacheVars
    /\ UNCHANGED execVars
    /\ UNCHANGED raceVars
    /\ UNCHANGED max_workers

SplitNext == ProcessWithSplit

SpecSplit == SplitInit /\ [][SplitNext]_vars

----------------------------------------------------------------------------
(* Two workers of a pool in _upload_file_cached at once (lines 298-365).   *)
(* The code takes no lock: each access of self.upload_cache is a step of   *)
(* its own, and the steps of the workers interleave.                       *)

Workers == {1, 2}

(* The cache the processor holds when the two jobs start: nothing, an      *)
(* entry for the bytes of files 1 and 2 stored at time 0, or entries for   *)
(* both contents                                                           *)
RaceCaches ==
    { <<>>,
      DictPut(<<>>, <<"md5", 1>>, [url |-> 101, timestamp |-> 0, filename |-> 1]),
      DictPut(DictPut(<<>>, <<"md5", 1>>, [url |-> 101, timestamp |-> 0, filename |-> 1]),
              <<"md5", 2>>, [url |-> 102, timestamp |-> 0, filename |-> 3]) }

(* The clock when the two jobs start: at, just before and just after the   *)
(* end of the lifetime of those entries                                    *)
RaceTimes == {TTL - 1, TTL, TTL + 1}

(* A set of keys in some order of iteration *)
RECURSIVE keys_in_order(_)
keys_in_order(K) ==
    IF K = {} THEN <<>>
    ELSE LET k == CHOOSE x \in K : TRUE IN <<k>> \o keys_in_order(K \ {k})

(* A worker that has entered a call on file f *)
NewCaller(f) ==
    [pc |-> "cleanup", file |-> f, current_time |-> 0, size0 |-> 0,
     expired_keys |-> <<>>, url |-> 0, error |-> ""]

RaceInit ==
    /\ fs = [f \in Files |-> [exists |-> TRUE, size_mb |-> SizeOf[f],
                              content |-> ContentOf[f]]]
    /\ upload_cache \in RaceCaches
    /\ now \in RaceTimes
    /\ next_id = 1
    /\ ticks = 0
    /\ ncalls = 0
    /\ prev_call = None
    /\ last_call = None
    /\ callers \in [Workers -> {NewCaller(f) : f \in Files}]
    /\ PlanIdle
    /\ ExecIdle
    /\ SplitIdle
    /\ max_workers = default_max_workers

RaceUnchanged ==
    /\ UNCHANGED <<fs, now, ticks, ncalls, prev_call, last_call>>
    /\ UNCHANGED planVars
    /\ UNCHANGED execVars
    /\ UNCHANGED splitVars
    /\ UNCHANGED max_workers

(* lines 355-359: _cleanup_expired_cache reads the clock and starts to     *)
(* iterate over self.upload_cache.items(); an empty map is done at once    *)
CleanupScanBegin(w) ==
    /\ callers[w].pc = "cleanup"
    /\ callers' = [callers EXCEPT
           ![w].current_time = now,
           ![w].size0 = Cardinality(DOMAIN upload_cache),
           ![w].pc = IF DOMAIN upload_cache = {} THEN "lookup" ELSE "scanning"]
    /\ UNCHANGED <<upload_cache, next_id>>
    /\ RaceUnchanged

(* lines 356-359: the iteration goes on after other threads ran; a dict    *)
(* whose size changed since the iteration began makes it raise             *)
(* RuntimeError (dictionary changed size during iteration), else           *)
(* expired_keys holds the keys older than 12 hours                         *)
CleanupScanEnd(w) ==
    /\ callers[w].pc = "scanning"
    /\ LET c == callers[w]
           expired == {k \in DOMAIN upload_cache :
                          c.current_time - upload_cache[k].timestamp > TTL}
       IN  callers' = [callers EXCEPT ![w] =
             IF Cardinality(DOMAIN upload_cache) # c.size0
             THEN [c EXCEPT !.pc = "raised", !.error = "RuntimeError"]
             ELSE [c EXCEPT !.expired_keys = keys_in_order(expired),
                            !.pc = IF expired = {} THEN "lookup" ELSE "purge"]]
    /\ UNCHANGED <<upload_cache, next_id>>
    /\ RaceUnchanged

(* lines 362-364: one turn of the loop over expired_keys; reading or       *)
(* deleting a key that is no longer in the map raises KeyError             *)
CleanupDelete(w) ==
    /\ callers[w].pc = "purge"
    /\ LET c == callers[w]
           key == Head(c.expired_keys)
       IN  IF key \notin DOMAIN upload_cache
           THEN /\ callers' = [callers EXCEPT ![w].pc = "raised", ![w].error = "KeyError"]
                /\ UNCHANGED upload_cache
           ELSE /\ upload_cache' = DictDel(upload_cache, key)
                /\ callers' = [callers EXCEPT
                      ![w].expired_keys = Tail(c.expired_keys),
                      ![w].pc = IF Tail(c.expired_keys) = <<>> THEN "lookup" ELSE "purge"]
    /\ UNCHANGED next_id
    /\ RaceUnchanged

(* lines 306-310: the bytes are read and hashed, then                      *)
(* `file_hash in self.upload_cache` (force_fresh is False)                 *)
CacheLookup(w) ==
    /\ callers[w].pc = "lookup"
    /\ LET f == callers[w].file
       IN  callers' = [callers EXCEPT ![w].pc =
               IF file_hash(f, fs[f].content) \in DOMAIN upload_cache
               THEN "entry" ELSE "upload"]
    /\ UNCHANGED <<upload_cache, next_id>>
    /\ RaceUnchanged

(* lines 311-315: cache_entry = self.upload_cache[file_hash] (KeyError if  *)
(* the key has gone) and the check of its age                              *)
CacheReadEntry(w) ==
    /\ callers[w].pc = "entry"
    /\ LET f == callers[w].file
           key == file_hash(f, fs[f].content)
       IN  callers' = [callers EXCEPT ![w] =
             IF key \notin DOMAIN upload_cache
             THEN [@ EXCEPT !.pc = "raised", !.error = "KeyError"]
             ELSE IF now - upload_cache[key].timestamp < TTL
             THEN [@ EXCEPT !.pc = "returned", !.url = upload_cache[key].url]
             ELSE [@ EXCEPT !.pc = "del_expired"]]
    /\ UNCHANGED <<upload_cache, next_id>>
    /\ RaceUnchanged

(* line 318: del self.upload_cache[file_hash] of the expired entry         *)
CacheDeleteExpired(w) ==
    /\ callers[w].pc = "del_expired"
    /\ LET f == callers[w].file
           key == file_hash(f, fs[f].content)
       IN  IF key \notin DOMAIN upload_cache
           THEN /\ callers' = [callers EXCEPT ![w].pc = "raised", ![w].error = "KeyError"]
                /\ UNCHANGED upload_cache
           ELSE /\ upload_cache' = DictDel(upload_cache, key)
                /\ callers' = [callers EXCEPT ![w].pc = "upload"]
    /\ UNCHANGED next_id
    /\ RaceUnchanged

(* lines 320-340: the file is uploaded and its signed URL obtained (the    *)
(* services answer)                                                        *)
RemoteUpload(w) ==
    /\ callers[w].pc = "upload"
    /\ callers' = [callers EXCEPT ![w].pc = "insert", ![w].url = next_id]
    /\ next_id' = next_id + 1
    /\ UNCHANGED upload_cache
    /\ RaceUnchanged

(* lines 342-351: the entry is stored under the hash and the URL returned  *)
CacheInsert(w) ==
    /\ callers[w].pc = "insert"
    /\ LET f == callers[w].file
       IN  upload_cache' = DictPut(upload_cache, file_hash(f, fs[f].content),
                                   [url |-> callers[w].url, timestamp |-> now,
                                    filename |-> f])
    /\ callers' = [callers EXCEPT ![w].pc = "returned"]
    /\ UNCHANGED next_id
    /\ RaceUnchanged

RaceNext ==
    \E w \in Workers :
        \/ CleanupScanBegin(w)
        \/ CleanupScanEnd(w)
        \/ CleanupDelete(w)
        \/ CacheLookup(w)
        \/ CacheReadEntry(w)
        \/ CacheDeleteExpired(w)
        \/ RemoteUpload(w)
        \/ CacheInsert(w)

SpecRace == RaceInit /\ [][RaceNext]_vars

----------------------------------------------------------------------------
(* Properties of the split planner, checked under SpecPlan *)

(* C2: analyze_split_needs sets requires_splitting exactly when            *)
(* size_mb > max_size_mb or total_pages > max_pages; a file between the    *)
(* safe size and the unscaled size limit, with pages within max_pages, is  *)
(* reported as not requiring a split.                                      *)
C2_RequiresSplittingIffOverUnscaledLimit ==
    IsSome(analysis) =>
        /\ Get(analysis).requires_splitting
             <=> (metrics.size_mb > limits.max_size_mb
                  \/ metrics.total_pages > limits.max_pages)
        /\ ( /\ RLess(safe_max_size(limits), RInt(metrics.size_mb))
             /\ metrics.size_mb <= limits.max_size_mb
             /\ metrics.total_pages <= limits.max_pages )
           => ~Get(analysis).requires_splitting

(* C2 witness: an analysed file above the safe size, within both unscaled limits *)
C2_Witness ==
    /\ IsSome(analysis)
    /\ RLess(safe_max_size(limits), RInt(metrics.size_mb))
    /\ metrics.size_mb <= limits.max_size_mb
    /\ metrics.total_pages <= limits.max_pages
    /\ ~Get(analysis).requires_splitting

(* C3: whenever requires_splitting is true, get_optimal_split_plan returns *)
(* a plan (never None) whose num_files is required_files, +1 or +2, whose  *)
(* score is the highest of the three candidates, and which is the          *)
(* candidate with the smallest num_files among those of equal score.       *)
C3_OptimalPlanIsBestCandidate ==
    ( /\ planop = <<"get_optimal_split_plan">>
      /\ Get(analysis).requires_splitting
      /\ metrics.total_pages >= 1 ) =>
        /\ IsSome(plan)
        /\ LET a == Get(analysis)
               r == a.required_files
               cand(n) == calculate_split_plan(a, Some(n))
           IN  /\ Get(plan).num_files \in r .. r + 2
               /\ \A n \in r .. r + 2 :
                    /\ RLeq(cand(n).efficiency_score, Get(plan).efficiency_score)
                    /\ cand(n).efficiency_score = Get(plan).efficiency_score
                         => Get(plan).num_files <= n

(* C4: for a file that requires splitting, the plan of                     *)
(* get_optimal_split_plan and the plan for num_files = required_files have *)
(* pages_per_file <= safe_max_pages and estimated_mb_per_file <=           *)
(* safe_max_size, and carry no warnings.                                   *)
C4_PlanWithinSafeLimits ==
    ( /\ IsSome(plan)
      /\ Get(analysis).requires_splitting
      /\ metrics.total_pages >= 1
      /\ planop \in {<<"get_optimal_split_plan">>, <<"calculate_split_plan", None>>} )
    => /\ Get(plan).pages_per_file <= safe_max_pages(limits)
       /\ RLeq(Get(plan).estimated_mb_per_file, safe_max_size(limits))
       /\ Get(plan).warnings = <<>>

(* C5: every plan p of calculate_split_plan has                            *)
(* p.pages_per_file * p.num_files >= total_pages and                       *)
(* p.pages_per_file * (p.num_files - 1) < total_pages.                     *)
C5_CeilingDistribution ==
    (planop[1] = "calculate_split_plan" /\ metrics.total_pages >= 1) =>
        /\ Get(plan).pages_per_file * Get(plan).num_files >= metrics.total_pages
        /\ Get(plan).pages_per_file * (Get(plan).num_files - 1) < metrics.total_pages

----------------------------------------------------------------------------
(* Properties of the upload cache, checked under SpecCache *)

TwelveHours == 43200

(* C6: of two successive calls with force_fresh = false on files with the  *)
(* same bytes (the same file or another name), the first one uploading and *)
(* returning a handle and the second one looking the entry up less than    *)
(* the TTL after it was stored, the second returns the same handle and     *)
(* performs no upload and no signed-URL request: one upload in total.      *)
C6_CacheHitReturnsSameHandle ==
    ( /\ IsSome(prev_call) /\ IsSome(last_call)
      /\ ~Get(prev_call).force_fresh /\ ~Get(last_call).force_fresh
      /\ Get(prev_call).content = Get(last_call).content
      /\ Get(prev_call).uploads = 1
      /\ Get(prev_call).result[1] = "return"
      /\ Get(last_call).read_ok
      /\ Get(last_call).t_lookup - Get(prev_call).t_end < TwelveHours )
    => /\ Get(last_call).result = Get(prev_call).result
       /\ Get(last_call).uploads = 0
       /\ Get(last_call).signed_requests = 0
       /\ Get(prev_call).uploads + Get(last_call).uploads = 1

(* C6 witness: the second call names another file with the same bytes, some *)
(* time after the first, and is served from the cache                      *)
C6_Witness ==
    /\ IsSome(prev_call) /\ IsSome(last_call)
    /\ ~Get(prev_call).force_fresh /\ ~Get(last_call).force_fresh
    /\ Get(prev_call).file # Get(last_call).file
    /\ Get(prev_call).content = Get(last_call).content
    /\ Get(prev_call).uploads = 1
    /\ Get(prev_call).result[1] = "return"
    /\ Get(last_call).t_call > Get(prev_call).t_end
    /\ Get(last_call).result = Get(prev_call).result
    /\ Get(last_call).uploads = 0

(* C7: a lookup made later than T + TTL never returns the entry stored at  *)
(* time T: the entry is removed, the file is uploaded again and, when the  *)
(* upload yields a handle, a new entry with a new timestamp is stored.     *)
C7_ExpiredEntryNeverReturned ==
    ( /\ IsSome(last_call)
      /\ Get(last_call).read_ok
      /\ IsSome(Get(last_call).before)
      /\ Get(last_call).t_call > Get(Get(last_call).before).timestamp + TwelveHours )
    => LET c == Get(last_call)
           old == Get(c.before)
           key == <<"md5", c.content>>
       IN  /\ c.result # <<"return", old.url>>
           /\ c.uploads = 1
           /\ c.result[1] = "return"
                => /\ key \in DOMAIN upload_cache
                   /\ upload_cache[key].url = c.result[2]
                   /\ upload_cache[key].url # old.url
                   /\ upload_cache[key].timestamp >= c.t_call
           /\ c.result[1] = "raise" => key \notin DOMAIN upload_cache
           /\ \A k \in DOMAIN upload_cache :
                c.t_call - upload_cache[k].timestamp <= TwelveHours

(* C7 witness: a lookup without force_fresh, later than T + TTL, that      *)
(* uploaded again and stored a new entry                                   *)
C7_Witness ==
    /\ IsSome(last_call)
    /\ ~Get(last_call).force_fresh
    /\ IsSome(Get(last_call).before)
    /\ Get(last_call).t_call > Get(Get(last_call).before).timestamp + TwelveHours
    /\ Get(last_call).result[1] = "return"
    /\ Get(last_call).uploads = 1
    /\ upload_cache[<<"md5", Get(last_call).content>>].timestamp = Get(last_call).t_call

----------------------------------------------------------------------------
(* Properties of the batch execution engine, checked under Spec *)

all_success == results.success \o group_results.success
all_failed == results.failed \o group_results.failed
InSuccess(f) == \E k \in 1 .. Len(all_success) : all_success[k].file = f
InFailed(f) == \E k \in 1 .. Len(all_failed) : all_failed[k].file = f

(* The pauses of an execution x between two attempts (line 290) *)
RetryDelays(x) ==
    LET rs == SelectSeq(x.sleeps, LAMBDA p : p.kind = "retry")
    IN  [k \in 1 .. Len(rs) |-> rs[k].secs]

(* C1: a job's failure never aborts the batch: whatever errors the jobs    *)
(* meet (missing source file, upload or handle error, rate-limit error,    *)
(* transient-fetch error, generic remote error), process_files_optimized   *)
(* does not raise, and when it has returned every job of every group was   *)
(* executed, every failing job is in 'failed' and every other in 'success'.*)
C1_JobFailureNeverAbortsBatch ==
    /\ pc # "raised"
    /\ pc = "done" =>
         \A i \in Jobs :
            LET f == files_info[i].file_path
                failing == \/ fut[i].st = "raised" /\ ~is_rate_limit_error(fut[i].error)
                           \/ retry[i].st = "raised"
            IN  /\ fut[i].runs = 1
                /\ fut[i].st \in {"returned", "raised"}
                /\ failing => InFailed(f) /\ ~InSuccess(f)
                /\ ~failing => InSuccess(f) /\ ~InFailed(f)

(* C8: in every execution of the job body, in the pool or inline, the k-th *)
(* pause between attempts follows a transient-fetch error and lasts 3*k    *)
(* seconds (3 s after attempt 0, 6 s after attempt 1); a running body has  *)
(* retried each error it met, at most twice; a body that raised did so on  *)
(* an error that is not a transient-fetch error, or on the third one,      *)
(* after at most 3 remote calls.  A body whose remote call fails twice     *)
(* with the transient signature and then succeeds returns after the        *)
(* pauses 3, 6.                                                            *)
C8_ExecRetriesTransientFetch(x) ==
    LET d == RetryDelays(x)
    IN  /\ \A k \in 1 .. Len(d) : x.errs[k] = "fetch_3310" /\ d[k] = 3 * k
        /\ Len(d) <= 2
        /\ x.ocr_calls <= 3
        /\ x.st \in {"running", "returned"} => Len(x.errs) = Len(d)
        /\ x.st = "running" => x.attempt = Len(d)
        /\ x.st = "raised" =>
             /\ Len(x.errs) = Len(d) + 1
             /\ x.errs[Len(x.errs)] # "fetch_3310" \/ Len(x.errs) = 3
        /\ (x.st = "returned" /\ x.errs = <<"fetch_3310", "fetch_3310">>)
             => d = <<3, 6>> /\ x.ocr_calls = 3

C8_TransientFetchRetry ==
    \A i \in Jobs :
        /\ C8_ExecRetriesTransientFetch(fut[i])
        /\ C8_ExecRetriesTransientFetch(retry[i])
        /\ (fut[i].collected /\ fut[i].st = "returned")
             => InSuccess(files_info[i].file_path)

(* C8 witness: a job failed twice with the transient signature, succeeded  *)
(* on the third attempt and was recorded in success                        *)
C8_Witness ==
    \E i \in Jobs :
        /\ fut[i].st = "returned"
        /\ fut[i].errs = <<"fetch_3310", "fetch_3310">>
        /\ RetryDelays(fut[i]) = <<3, 6>>
        /\ fut[i].collected
        /\ InSuccess(files_info[i].file_path)

(* C9: a job whose future surfaced a rate-limit error had the adaptive     *)
(* delay multiplied by 1.5 once, the collector then slept twice the new    *)
(* delay, and its body was executed inline once; no other job is executed  *)
(* inline.  When the inline execution returned the job is in success; when *)
(* it raised (also on another rate-limit error) the job is in failed and   *)
(* was not executed again.                                                 *)
C9_RateLimitRetriedOnceInline ==
    /\ \A i \in Jobs :
         LET f == files_info[i].file_path
             surfaced == /\ fut[i].collected
                         /\ fut[i].st = "raised"
                         /\ is_rate_limit_error(fut[i].error)
         IN  /\ retry[i].runs = IF surfaced THEN 1 ELSE 0
             /\ fut[i].runs <= 1
             /\ surfaced => retry[i].st \in {"running", "returned", "raised"}
             /\ retry[i].st = "returned" => InSuccess(f) /\ ~InFailed(f)
             /\ retry[i].st = "raised" => InFailed(f) /\ ~InSuccess(f)
             /\ retry[i].st = "running" => pc = "retry" /\ cur = i
    /\ pc = "retry" =>
         /\ IsSome(rl_event)
         /\ Get(rl_event).job = cur
         /\ adaptive_delay = RMul(<<3, 2>>, Get(rl_event).before)
         /\ last_sleep = Some(Pause("rate_limit", RScale(2, adaptive_delay)))

(* C9 witness: the inline retry of a rate-limited job failed with another  *)
(* rate-limit error and the call has returned with the job in failed       *)
C9_Witness ==
    \E i \in Jobs :
        /\ pc = "done"
        /\ is_rate_limit_error(fut[i].error)
        /\ retry[i].st = "raised"
        /\ is_rate_limit_error(retry[i].error)
        /\ retry[i].runs = 1
        /\ InFailed(files_info[i].file_path)

(* C10: the adaptive delay is 1.5 at first and never below 0.5, and every  *)
(* step that records a success sets it to max(0.5, 0.9 x adaptive_delay).  *)
C10_DelayFloorAndDecayOnEachSuccess ==
    [][ /\ RLeq(<<1, 2>>, adaptive_delay)
        /\ RLeq(<<1, 2>>, adaptive_delay')
        /\ Len(all_success') = Len(all_success) + 1
             => adaptive_delay' = RMax(<<1, 2>>, RMul(<<9, 10>>, adaptive_delay)) ]_vars

----------------------------------------------------------------------------
(* Properties of grouping and pool sizing, checked under SpecGroup *)

(* The buckets a job is in *)
BucketsOf(i) == {g \in 1 .. 3 : \E k \in 1 .. Len(groups[g]) : groups[g][k] = i}

----------------------------------------------------------------------------
(* Further properties of the batch execution engine, checked under Spec *)

(* The calls of the progress callback made for group g, in order *)
ProgressOf(g) == SelectSeq(progress, LAMBDA e : e[1] = g)

(* C12: in each group the progress callback is invoked once per job whose  *)
(* final outcome has been recorded (success or failure, also through the   *)
(* inline rate-limit retry), with completed = 1, 2, ..., total; the last   *)
(* invocation for a finished group is (total, total).                      *)
C12_ProgressOncePerJob ==
    /\ \A g \in 1 .. 3 :
         /\ \A k \in 1 .. Len(ProgressOf(g)) :
              ProgressOf(g)[k] = <<g, k, Len(groups[g])>>
         /\ (gi > g \/ pc = "done")
              => Len(ProgressOf(g)) = Len(groups[g])
    /\ pc \in {"submit", "collect", "retry"}
         => Len(ProgressOf(gi)) = Len(group_results.success) + Len(group_results.failed)

----------------------------------------------------------------------------
(* Properties of the output writers, checked under SpecSave *)

(* C13: when the write of a configured format raises, every other          *)
(* configured format of the job is still written, the job is reported in   *)
(* success, and saved_files has an entry for exactly the formats whose     *)
(* write returned.                                                         *)
C13_SaveErrorIsolated ==
    \A i \in Jobs :
        LET f == files_info[i].file_path
            written == config \ fut[i].save_fails
        IN  /\ fut[i].st # "raised"
            /\ fut[i].st = "returned" => fut[i].saved_files = written
            /\ fut[i].collected =>
                 /\ \E k \in 1 .. Len(all_success) :
                      /\ all_success[k].file = f
                      /\ all_success[k].saved_files = written
                 /\ ~InFailed(f)

(* C13 witness: of three configured formats the write of the second one    *)
(* raised; the job is in success with the first and the third              *)
C13_Witness ==
    \E i \in Jobs :
        /\ config = {"md", "txt", "images"}
        /\ fut[i].save_fails = {"txt"}
        /\ fut[i].collected
        /\ \E k \in 1 .. Len(all_success) :
             /\ all_success[k].file = files_info[i].file_path
             /\ all_success[k].saved_files = {"md", "images"}

----------------------------------------------------------------------------
(* Claims about the alternative plans and the analysis of the planner *)

(* C14: for a file that does not require splitting, calculate_split_plan   *)
(* (with any num_files argument), get_optimal_split_plan and               *)
(* get_alternative_plans all yield the plan with num_files = 1,            *)
(* pages_per_file = total_pages, efficiency_score = 1.0 and no warnings,   *)
(* and get_alternative_plans returns exactly that one plan.                *)
C14_NoSplitCanonicalPlan ==
    ( /\ IsSome(analysis)
      /\ ~Get(analysis).requires_splitting
      /\ planop[1] \in {"calculate_split_plan", "get_optimal_split_plan",
                        "get_alternative_plans"} ) =>
        /\ Len(plan) = 1
        /\ plan[1].num_files = 1
        /\ plan[1].pages_per_file = metrics.total_pages
        /\ plan[1].efficiency_score = RInt(1)
        /\ plan[1].warnings = <<>>

(* A 10 MB file of 50 pages under max_size_mb = 48 and max_pages = 135 got *)
(* its single alternative plan *)
C14_Witness ==
    /\ planop = <<"get_alternative_plans">>
    /\ metrics.size_mb = 1000 /\ metrics.total_pages = 50
    /\ limits.max_size_mb = 4800 /\ limits.max_pages = 135
    /\ ~Get(analysis).requires_splitting
    /\ Len(plan) = 1 /\ plan[1].num_files = 1 /\ plan[1].pages_per_file = 50

(* C15: for a file that requires splitting, get_alternative_plans returns  *)
(* between 1 and 3 plans, pairwise distinct in (num_files, pages_per_file),*)
(* in non-increasing order of efficiency_score.  Its candidates are the    *)
(* plans for required_files and required_files + 1 files, and the plans    *)
(* for ceil(total_pages / 50) and ceil(total_pages / 100) files, the last  *)
(* two only when the chunk size is below total_pages and the plan has      *)
(* estimated_mb_per_file <= 50, pages_per_file <= 150 and                  *)
(* efficiency_score >= 0.8.  A candidate is left out only as the duplicate *)
(* of a returned plan or behind the third returned plan.                   *)
C15_Candidates ==
    LET a == Get(analysis)
        chunk_plan(c) == calculate_split_plan(a, Some(CeilDiv(metrics.total_pages, c)))
    IN  { calculate_split_plan(a, Some(a.required_files)),
          calculate_split_plan(a, Some(a.required_files + 1)) }
        \cup { chunk_plan(c) : c \in { d \in {50, 100} :
                  /\ d < metrics.total_pages
                  /\ RLeq(chunk_plan(d).estimated_mb_per_file, RInt(5000))
                  /\ chunk_plan(d).pages_per_file <= 150
                  /\ RLeq(<<4, 5>>, chunk_plan(d).efficiency_score) } }

C15_AlternativePlansRankedDistinct ==
    ( /\ planop = <<"get_alternative_plans">>
      /\ Get(analysis).requires_splitting ) =>
        /\ Len(plan) \in 1..3
        /\ \A i, j \in 1..Len(plan) :
              i < j => <<plan[i].num_files, plan[i].pages_per_file>>
                       # <<plan[j].num_files, plan[j].pages_per_file>>
        /\ \A i \in 1..(Len(plan) - 1) :
              RLeq(plan[i + 1].efficiency_score, plan[i].efficiency_score)
        /\ \A i \in 1..Len(plan) : plan[i] \in C15_Candidates
        /\ \A c \in C15_Candidates :
              \/ \E i \in 1..Len(plan) : plan[i] = c
              \/ \E i \in 1..Len(plan) :
                    /\ plan[i].num_files = c.num_files
                    /\ plan[i].pages_per_file = c.pages_per_file
              \/ Len(plan) = 3 /\ RLeq(c.efficiency_score, plan[3].efficiency_score)

(* Three alternatives were returned, one of them a chunk plan that is      *)
(* neither the plan for required_files nor the one for required_files + 1, *)
(* while the plan of the other chunk size was not optimal and left out     *)
C15_Witness ==
    /\ planop = <<"get_alternative_plans">>
    /\ Get(analysis).requires_splitting
    /\ Len(plan) = 3
    /\ \E i \in 1..3 : plan[i].num_files \notin
           {Get(analysis).required_files, Get(analysis).required_files + 1}
    /\ \E c \in {50, 100} :
           /\ c < metrics.total_pages
           /\ ~is_optimal(calculate_split_plan(Get(analysis),
                              Some(CeilDiv(metrics.total_pages, c))))

(* C16: analyze_split_needs computes min_files_by_size =                   *)
(* ceil(size_mb / safe_max_size), min_files_by_pages =                     *)
(* ceil(total_pages / safe_max_pages) and required_files = the larger of   *)
(* the two, with safe_max_size = max_size_mb x safety_factor_size and      *)
(* safe_max_pages = floor(max_pages x safety_factor_pages); a 100 MB file  *)
(* of 400 pages under max_size_mb = 48 and max_pages = 135 requires        *)
(* splitting with 3 files by size, 4 by pages and 4 required.              *)
(* The ceilings and the floor are stated by their defining inequalities.   *)
C16_RequiredFilesFromSafeLimits ==
    IsSome(analysis) =>
        LET a == Get(analysis)
            \* safe_max_size in cMB is max_size_mb * safety_factor_size / 100
            S == limits.max_size_mb * limits.safety_factor_size
            P == CHOOSE q \in 0..limits.max_pages :
                   /\ q * 100 <= limits.max_pages * limits.safety_factor_pages
                   /\ limits.max_pages * limits.safety_factor_pages < (q + 1) * 100
            bs == a.min_files_by_size
            bp == a.min_files_by_pages
        IN  /\ bs * S >= metrics.size_mb * 100
            /\ (bs - 1) * S < metrics.size_mb * 100
            /\ bp * P >= metrics.total_pages
            /\ (bp - 1) * P < metrics.total_pages
            /\ a.required_files = (IF bs >= bp THEN bs ELSE bp)
            /\ ( ( /\ metrics.size_mb = 10000 /\ metrics.total_pages = 400
                    /\ limits.max_size_mb = 4800 /\ limits.max_pages = 135 ) =>
                  ( /\ a.requires_splitting
                    /\ bs = 3 /\ bp = 4 /\ a.required_files = 4 ) )

(* The 100 MB file of 400 pages was analysed under max_size_mb = 48 and    *)
(* max_pages = 135 *)
C16_Witness ==
    /\ IsSome(analysis)
    /\ planop = <<"analyze_split_needs">>
    /\ metrics.size_mb = 10000 /\ metrics.total_pages = 400
    /\ limits.max_size_mb = 4800 /\ limits.max_pages = 135
    /\ Get(analysis).required_files = 4

----------------------------------------------------------------------------
(* Claims about job expansion, checked under SpecSplit *)

(* C17: a file that does not require splitting yields exactly one job, and *)
(* a file split with a target of N >= 1 files yields exactly N jobs:       *)
(* process_with_split returns as many sub-jobs as its num_files_target.    *)
(* Stated for the files whose page count file_info knows (it is the page   *)
(* count of the PDF) and that have at least one page.                      *)
C17_SplitYieldsTargetManyJobs ==
    ( /\ split_pc = "returned"
      /\ file_info.pages = Some(pdf_pages)
      /\ pdf_pages >= 1 ) =>
        IF ~file_info.requires_split
        THEN Len(files_to_process) = 1
        ELSE num_files_target >= 1 => Len(files_to_process) = num_files_target

----------------------------------------------------------------------------
(* Further claims about the batch execution, checked under Spec *)

(* The job of the batch that processes file f *)
JobOf(f) == CHOOSE i \in 1 .. Len(files_info) : files_info[i].file_path = f

(* C18 as stated: the 'error' field of every entry of failed is the text   *)
(* of the error with which its job first failed (the error its pool        *)
(* execution raised), also when the job went through the inline            *)
(* rate-limit retry before it was recorded as failed.                      *)
C18_FailedEntryRetainsFirstError ==
    \A k \in 1 .. Len(all_failed) :
        all_failed[k].error = fut[JobOf(all_failed[k].file)].error

(* C18, amended: the 'error' field of every entry of failed is the text of *)
(* the error raised by the last execution of the job body: the error of    *)
(* the pool execution for a job that was not retried inline, the error of  *)
(* the inline retry for a job that went through the inline rate-limit      *)
(* retry.                                                                  *)
C18_FailedEntryHasLastError ==
    \A k \in 1 .. Len(all_failed) :
        LET i == JobOf(all_failed[k].file)
        IN  all_failed[k].error = (IF retry[i].runs > 0 THEN retry[i].error
                                   ELSE fut[i].error)

(* The call returned with a failed job whose inline retry raised another   *)
(* error than the rate-limit error of its pool execution                    *)
C18_Witness ==
    /\ pc = "done"
    /\ \E k \in 1 .. Len(results.failed) :
          LET i == JobOf(results.failed[k].file)
          IN  /\ retry[i].runs > 0
              /\ is_rate_limit_error(fut[i].error)
              /\ retry[i].error # fut[i].error
              /\ results.failed[k].error = retry[i].error

(* How many job bodies of the current group are executing: those the       *)
(* workers of the pool run, and the one the collector runs inline after    *)
(* the rate-limit error of job cur                                         *)
bodies_executing ==
    running_in_pool + (IF pc = "retry" /\ retry[cur].st = "running" THEN 1 ELSE 0)

(* C19: at no time are more than width(g) job bodies of group g executing  *)
(* simultaneously, width(g) being the pool width of the group, also while  *)
(* the collector runs an inline rate-limit retry of one job and other jobs *)
(* of the group are still running in the pool.                             *)
C19_BodiesExecutingWithinWidth ==
    pc \in {"submit", "collect", "retry"} =>
        bodies_executing <= get_optimal_workers(GroupNames[gi], Len(groups[gi]))

(* How often file f is named by the entries of a list of results *)
EntriesOf(list, f) == Cardinality({k \in 1 .. Len(list) : list[k].file = f})

(* C20: when process_files_optimized returns normally, every job of the    *)
(* input appears exactly once in success or failed and never in both, so   *)
(* |success| + |failed| is the number of input jobs, whatever the outcomes *)
(* of the jobs (first-try success, success after transient retries,        *)
(* success on the inline rate-limit retry, failure).                       *)
C20_EveryJobInExactlyOneList ==
    pc = "done" =>
        /\ \A i \in 1 .. Len(files_info) :
              EntriesOf(results.success, files_info[i].file_path)
                + EntriesOf(results.failed, files_info[i].file_path) = 1
        /\ Len(results.success) + Len(results.failed) = Len(files_info)

(* A call on three jobs in two groups returned with one job that succeeded *)
(* on its first try, one that succeeded on the inline rate-limit retry     *)
(* and one that failed                                                     *)
C20_Witness ==
    /\ pc = "done"
    /\ Len(files_info) = 3
    /\ \E i, j, k \in 1 .. 3 :
          /\ fut[i].st = "returned" /\ fut[i].errs = <<>>
          /\ retry[j].st = "returned"
          /\ InFailed(files_info[k].file_path)
    /\ Len(results.success) = 2
    /\ Len(results.failed) = 1

----------------------------------------------------------------------------
(* Claims about concurrent calls of _upload_file_cached, checked under     *)
(* SpecRace                                                                *)

(* A worker is inside a cache access: it iterates over the map, deletes    *)
(* the keys it found expired, or has found its key in the map and not yet  *)
(* read or deleted the entry                                               *)
InCacheStep(w) == callers[w].pc \in {"scanning", "purge", "entry", "del_expired"}

(* C21: every access of a worker to the shared upload cache inside         *)
(* _upload_file_cached (purge, lookup, deletion, insertion) runs under a   *)
(* lock, so no two workers are ever inside these cache-access steps at the *)
(* same time.                                                              *)
C21_CacheAccessMutuallyExclusive ==
    \A v, w \in Workers : (InCacheStep(v) /\ InCacheStep(w)) => v = w

(* C22: for any two workers calling _upload_file_cached at the same time,  *)
(* no interleaving makes a worker fail inside the cache steps: no worker   *)
(* deletes or reads a key another worker has removed, and no scan of the   *)
(* expired entries observes the map changed by another worker.             *)
C22_NoWorkerFailsInCacheSteps ==
    \A w \in Workers : callers[w].pc # "raised"

----------------------------------------------------------------------------
(* Claims about the order of the groups, checked under SpecOrder *)

(* The place of a job's group in the order large, medium, small, from the  *)
(* size of its file                                                        *)
RankOf(i) ==
    IF files_info[i].size_mb >= 30 THEN 1
    ELSE IF files_info[i].size_mb >= 10 THEN 2 ELSE 3

(* Job i has its final outcome: its future was collected, no inline retry  *)
(* of it is under way, and it has its entry in success or failed           *)
FinalOutcome(i) ==
    /\ fut[i].collected
    /\ retry[i].st # "running"
    /\ InSuccess(files_info[i].file_path) \/ InFailed(files_info[i].file_path)

(* C23: the groups run one after another in the order large, medium,       *)
(* small: no job of a later group is submitted to a pool before every job  *)
(* of each earlier non-empty group has its final outcome, that of an       *)
(* inline rate-limit retry included; empty groups are skipped.             *)
C23_GroupsRunInOrder ==
    \A i, j \in Jobs :
        (RankOf(i) < RankOf(j) /\ fut[j].st # "new") => FinalOutcome(i)

(* The small file of a batch without medium file is in the pool after the  *)
(* large file went through an inline rate-limit retry                      *)
C23_Witness ==
    /\ Len(files_info) = 2
    /\ groups[2] = <<>>
    /\ \E i, j \in Jobs :
          /\ RankOf(i) = 1 /\ RankOf(j) = 3
          /\ retry[i].runs = 1
          /\ FinalOutcome(i)
          /\ fut[j].st = "running"

----------------------------------------------------------------------------
(* Claims about the upload handle of a retry attempt, checked under Spec *)

(* The executions of the job body of job i: in the pool and inline *)
ExecsOf(i) == {fut[i], retry[i]}

(* C24: on every attempt > 0 of the job body the cache entry stored under  *)
(* the content hash of the file is removed before the upload, the upload   *)
(* is forced (the cache is not consulted), and the handle used for the     *)
(* remote call of that attempt is the newly obtained one, which replaces   *)
(* the old entry in the cache.                                             *)
C24_FreshHandleOnRetry ==
    \A i \in Jobs : \A x \in ExecsOf(i) :
        (IsSome(x.last_iter) /\ Get(x.last_iter).attempt > 0
                             /\ Get(x.last_iter).uploads = 1) =>
            LET it == Get(x.last_iter)
            IN  /\ it.entry_at_upload = None
                /\ it.file_url # 0 => it.file_url = it.upload_id

(* C25: once a handle has produced a transient-fetch error for a job and   *)
(* the job body went on to its retry attempt, the cache no longer returns  *)
(* that handle for the same content, also when the forced upload (or its   *)
(* signed-URL request) of the retry attempt fails and the job ends as      *)
(* failed: the cache then holds no entry with that handle.                 *)
C25_NoStaleHandleAfterRetry ==
    \A i \in Jobs : \A x \in ExecsOf(i) :
        x.st \in {"returned", "raised"} =>
            \A k \in DOMAIN upload_cache : upload_cache[k].url \notin x.retried_urls

----------------------------------------------------------------------------
(* Claims about the acquisition of the handle, checked under SpecHandle *)

(* The iteration `it` uploaded the file and all its signed-URL requests    *)
(* failed                                                                  *)
AllSignedFailed(it) == it.uploads = 1 /\ it.signed_requests = 3 /\ it.file_url = 0

(* After one upload the signed URL is requested at most 3 times, with a    *)
(* sleep of 1 s after the first and of 2 s after the second failed         *)
(* request and none after the third; when all 3 fail the call stores no    *)
(* cache entry                                                             *)
HandleAcquisition(it) ==
    it.uploads = 1 =>
        /\ it.signed_requests <= 3
        /\ it.file_url # 0 => it.signed_requests >= 1
        /\ it.signed_requests >= 1 =>
              LET failed == IF it.file_url = 0 THEN it.signed_requests
                            ELSE it.signed_requests - 1
              IN  /\ Len(it.signed_sleeps) = (IF failed = 3 THEN 2 ELSE failed)
                  /\ \A k \in 1 .. Len(it.signed_sleeps) :
                        it.signed_sleeps[k] = 2 ^ (k - 1)
        /\ AllSignedFailed(it) =>
              /\ it.error # ""
              /\ \A k \in DOMAIN upload_cache : upload_cache[k].url # it.upload_id

(* C26: on a cache miss or forced-fresh call the file is uploaded once,    *)
(* the signed URL requested at most 3 times with sleeps of 1 s and 2 s     *)
(* after the first and second failure; if all 3 requests fail the error    *)
(* propagates out of the job body without a sleep after the last one, no   *)
(* cache entry is stored by that call, and the job is recorded as failed.  *)
C26_SignedUrlFailureFailsJob ==
    \A i \in Jobs : \A x \in ExecsOf(i) :
        IsSome(x.last_iter) =>
            /\ HandleAcquisition(Get(x.last_iter))
            /\ AllSignedFailed(Get(x.last_iter)) =>
                  /\ x.st = "raised"
                  /\ pc = "done" => /\ InFailed(files_info[i].file_path)
                                    /\ ~InSuccess(files_info[i].file_path)

----------------------------------------------------------------------------
(* Claims about the stagger and the adaptive delay *)

(* The size tiers of the stagger: 0.5 s under 5 MB, 1.5 s under 30 MB,     *)
(* 4.0 s otherwise                                                         *)
tier(size_mb) ==
    IF size_mb < 5 THEN Rat(1, 2) ELSE IF size_mb < 30 THEN Rat(3, 2) ELSE RInt(4)

(* C27: the first job of each group is submitted without any sleep, and    *)
(* before submitting each later job of the group the executor sleeps       *)
(* max(tier(size), current adaptive delay), where tier(size) is 0.5 s for  *)
(* size < 5 MB, 1.5 s for 5 <= size < 30 MB and 4.0 s otherwise.           *)
C27_StaggerBeforeDispatch ==
    [][ submitted' = submitted + 1 =>
            LET i == groups[gi][submitted + 1]
            IN  IF submitted = 0
                THEN last_sleep' = last_sleep
                ELSE last_sleep' = Some(Pause("stagger",
                                              RMax(tier(files_info[i].size_mb),
                                                   adaptive_delay))) ]_vars

(* A pool worker takes a step: a queued job starts or a running job body   *)
(* runs one iteration                                                      *)
WorkerStep ==
    \E i \in Jobs : fut[i].st \in {"queued", "running"} /\ fut'[i] # fut[i]

(* No job of an earlier group of the call: the group being submitted is    *)
(* the first one the processor runs                                        *)
FirstGroup == \A g \in 1 .. gi - 1 : groups[g] = <<>>

(* C28: the adaptive delay is constant during a group's submission phase:  *)
(* no decay and no backoff is applied before the last job of the group has *)
(* been submitted, so the delay that staggers the jobs of a group is the   *)
(* value left by the previous group (1.5 for the first group of a new      *)
(* processor), and no step of a pool worker changes it.                    *)
C28_DelayConstantDuringSubmission ==
    [][ /\ pc = "submit" => adaptive_delay' = adaptive_delay
        /\ WorkerStep => adaptive_delay' = adaptive_delay
        /\ (pc = "submit" /\ FirstGroup) => adaptive_delay = Rat(3, 2)
      ]_vars

(* The second job of a later group is about to be submitted while a worker *)
(* runs the first one, with the delay the previous group left              *)
C28_Witness ==
    /\ pc = "submit"
    /\ submitted = 1
    /\ ~FirstGroup
    /\ adaptive_delay # Rat(3, 2)
    /\ \E i \in Jobs : fut[i].st = "running"

----------------------------------------------------------------------------
(* Termination, checked under SpecFair *)

(* Every job of the batch handed to the call is in success or in failed *)
AllJobsFinal ==
    \A k \in 1 .. Len(files_info) :
        InSuccess(files_info[k].file_path) \/ InFailed(files_info[k].file_path)

(* C29: when every upload, signed-URL request, OCR call, save and sleep    *)
(* returns, process_files_optimized terminates for every batch, every job  *)
(* eventually reaches success or failed, and the remote OCR is invoked at  *)
(* most 6 times for a job: at most 3 times by the pooled execution and at  *)
(* most 3 times by the single inline rate-limit retry.                     *)
C29_TerminatesWithBoundedRetries ==
    /\ [](\A i \in Jobs : /\ fut[i].ocr_calls <= 3
                          /\ retry[i].ocr_calls <= 3
                          /\ fut[i].runs <= 1
                          /\ retry[i].runs <= 1)
    /\ (pc # "idle") ~> (pc \in {"done", "raised"} /\ AllJobsFinal)

----------------------------------------------------------------------------
(* The pool width and max_workers, checked under SpecWidth *)

(* C30: max_workers is the maximum number of concurrent workers: for a     *)
(* processor constructed with max_workers = m, the pool width used for any *)
(* group of any batch never exceeds m.                                     *)
C30_PoolWidthWithinMaxWorkers ==
    (pc = "grouped" /\ gi # 0) => workers <= max_workers

----------------------------------------------------------------------------
(* Page offsets of the jobs, checked under Spec *)

(* The entries of job i in the success list *)
SuccessOf(i) ==
    {k \in 1 .. Len(all_success) : all_success[k].file = files_info[i].file_path}

(* C31: page offsets are fixed before dispatch and untouched by execution: *)
(* for every job, the page offset handed to each output writer and         *)
(* reported in the job's success entry equals the page_offset the job      *)
(* carried when process_files_optimized was called, in every completion    *)
(* order of the group's jobs and on every retry attempt.                   *)
C31_PageOffsetFixedBeforeDispatch ==
    \A i \in Jobs :
        LET given == PageOffsetOf[files_info[i].file_path]
        IN  /\ \A x \in ExecsOf(i) :
                  x.st = "returned" =>
                      /\ x.page_offset = Some(given)
                      /\ DOMAIN x.writer_offsets = config
                      /\ \A t \in config : x.writer_offsets[t] = given
            /\ \A k \in SuccessOf(i) : all_success[k].page_offset = given

(* Two jobs of one group were collected in the order opposite to their     *)
(* submission, the first after a retry of its attempt, and both are in     *)
(* success with their own page offsets                                     *)
C31_Witness ==
    /\ pc = "done"
    /\ Len(all_success) >= 2
    /\ \E i, j \in Jobs :
          /\ i < j
          /\ files_info[i].page_offset # files_info[j].page_offset
          /\ fut[i].attempt > 0
          /\ \E ki \in SuccessOf(i), kj \in SuccessOf(j) : kj < ki

----------------------------------------------------------------------------
(* Numbering of the sub-jobs of a split file, checked under SpecSplit *)

(* C32: the sub-jobs returned by process_with_split for a split file have  *)
(* page_offset = idx x pages_per_file and page counts such that the ranges *)
(* (page_offset, page_offset + pages] are consecutive, non-empty, pairwise *)
(* disjoint and cover exactly pages 1..total_pages (they are the pages     *)
(* split_pdf put in each file), whenever the page count in file_info is    *)
(* the page count seen by split_pdf.                                       *)
C32_SplitJobsNumberedContinuously ==
    ( /\ split_pc = "returned"
      /\ file_info.requires_split
      /\ file_info.pages = Some(pdf_pages)
      /\ num_files_target >= 1 ) =>
        LET pages_per_file == CeilDiv(pdf_pages, num_files_target)
            n == Len(files_to_process)
        IN  /\ n >= 1
            /\ \A idx \in 1 .. n :
                  LET job == files_to_process[idx]
                  IN  /\ job.page_offset = (idx - 1) * pages_per_file
                      /\ job.pages >= 1
                      /\ job.file_path[2].first = job.page_offset + 1
                      /\ job.file_path[2].last = job.page_offset + job.pages
                      /\ idx < n =>
                            files_to_process[idx + 1].page_offset
                                = job.page_offset + job.pages
            /\ files_to_process[1].page_offset = 0
            /\ files_to_process[n].page_offset + files_to_process[n].pages = pdf_pages

(* A PDF of 10 pages split with a target of 3: jobs of 4, 4 and 2 pages *)
C32_Witness ==
    /\ split_pc = "returned"
    /\ file_info.requires_split
    /\ file_info.pages = Some(10)
    /\ pdf_pages = 10
    /\ num_files_target = 3
    /\ Len(files_to_process) = 3
    /\ files_to_process[3].page_offset = 8
    /\ files_to_process[3].pages = 2

----------------------------------------------------------------------------
(* The processing plan of a batch, checked under SpecMulti *)

(* The sum of pages_count of the operations ops *)
RECURSIVE SumPagesCount(_)
SumPagesCount(ops) ==
    IF ops = <<>> THEN 0 ELSE Head(ops).pages_count + SumPagesCount(Tail(ops))

(* The sum of total_pages of the first k entries *)
RECURSIVE PagesBefore(_, _)
PagesBefore(entries, k) ==
    IF k = 0 THEN 0 ELSE entries[k].analysis.total_pages + PagesBefore(entries, k - 1)

(* C33: generate_processing_plan accounts for every page exactly once: for *)
(* each file whose recommendation has num_files > 1, its split_and_process *)
(* operations have pages_count >= 1, pages_range start <= end, consecutive *)
(* non-overlapping ranges, and pages_count values that sum to the file's   *)
(* total_pages; and each file's page_offset equals the sum of total_pages  *)
(* of the files before it.                                                 *)
C33_ProcessingPlanCoversEveryPageOnce ==
    planop = <<"generate_processing_plan">> =>
        LET entries == Get(analysis)
            files == Get(plan)
        IN  \A k \in 1 .. Len(entries) :
              /\ files[k].page_offset = PagesBefore(entries, k - 1)
              /\ ( /\ IsSome(entries[k].recommendation)
                   /\ Get(entries[k].recommendation).num_files > 1 ) =>
                    LET ops == files[k].operations
                    IN  /\ \A i \in 1 .. Len(ops) :
                              /\ ops[i].pages_count >= 1
                              /\ ops[i].pages_range[1] <= ops[i].pages_range[2]
                              /\ i < Len(ops) =>
                                    ops[i + 1].pages_range[1] = ops[i].pages_range[2] + 1
                        /\ ops[1].pages_range[1] = 1
                        /\ SumPagesCount(ops) = entries[k].analysis.total_pages

----------------------------------------------------------------------------
(* The score, the warnings and the tag of a candidate plan, checked under  *)
(* SpecPlan                                                                *)

(* size/n + overhead of a candidate with n files, in cMB *)
CandidateMb(n) == RAdd(Rat(metrics.size_mb, n), RInt(limits.pdf_overhead_mb))

(* ceil(total_pages / n) *)
CandidatePages(n) == CeilDiv(metrics.total_pages, n)

(* The score of the claim for a candidate with n files *)
ClaimedScore(n) ==
    LET S == safe_max_size(limits)
        mb == CandidateMb(n)
        size_eff == RMin(RInt(1), Rat(S[1] * mb[2], S[2] * mb[1]))
        page_eff == RMin(RInt(1), Rat(safe_max_pages(limits), CandidatePages(n)))
        gap == RAbs(RSub(size_eff, page_eff))
    IN  RSub(RAdd(RAdd(RMul(Rat(4, 10), size_eff), RMul(Rat(4, 10), page_eff)),
                  RMul(Rat(2, 10), RSub(RInt(1), RMul(Rat(1, 2), gap)))),
             Rat(Max2(0, (n - 5) * 5), 100))

(* A plan was computed by calculate_split_plan for a file with pages that  *)
(* requires a split                                                        *)
CandidateComputed ==
    /\ planop[1] = "calculate_split_plan"
    /\ Get(analysis).requires_splitting
    /\ metrics.total_pages >= 1

(* C34: the efficiency score of calculate_split_plan(analysis, n) for a    *)
(* file requiring a split is 0.4 x min(1, safe_max_size/mb) + 0.4 x        *)
(* min(1, safe_max_pages/pages) + 0.2 x (1 - 0.5 x |size_eff - page_eff|)  *)
(* - max(0, (n - 5) x 0.05) with mb = size/n + overhead and pages =        *)
(* ceil(total_pages/n); it is not clamped: at most 1 for every n, strictly *)
(* positive for every n <= 5, and negative for every n >= 26.  The score   *)
(* of BatchOptimizer._evaluate_split is the same under its limits.         *)
C34_EfficiencyScoreNotClamped ==
    CandidateComputed =>
        LET p == Get(plan)
            n == p.num_files
        IN  /\ p.efficiency_score = ClaimedScore(n)
            /\ RLeq(p.efficiency_score, RInt(1))
            /\ n <= 5 => RLess(RInt(0), p.efficiency_score)
            /\ n >= 26 => RLess(p.efficiency_score, RInt(0))
            /\ limits = BatchOptimizerLimits =>
                  evaluate_split(analyze_pdf(metrics.size_mb, metrics.total_pages), n)[2]
                      .efficiency_score = ClaimedScore(n)

(* A candidate of 26 files with a negative score *)
C34_Witness ==
    /\ CandidateComputed
    /\ Get(plan).num_files >= 26
    /\ RLess(Get(plan).efficiency_score, RInt(0))

(* C35: calculate_split_plan emits the size warning exactly when size/n +  *)
(* overhead > safe_max_size and the page warning exactly when              *)
(* ceil(total_pages/n) > safe_max_pages; the base tag is 'balanced' with   *)
(* no warning, 'size-constrained' with only the size warning and           *)
(* 'page-constrained' whenever the page warning is present; the qualifier  *)
(* 'high-density' (more than 1.0 MB per page) or 'low-density' (less than  *)
(* 0.1 MB per page) replaces 'balanced' or is appended to a constrained    *)
(* tag.                                                                    *)
C35_WarningsAndStrategyTag ==
    (planop[1] = "calculate_split_plan" /\ Get(analysis).requires_splitting) =>
        LET p == Get(plan)
            n == p.num_files
            size_w == RLess(safe_max_size(limits), CandidateMb(n))
            page_w == CandidatePages(n) > safe_max_pages(limits)
            high == metrics.total_pages > 0 /\ metrics.size_mb > 100 * metrics.total_pages
            low == metrics.total_pages = 0 \/ 10 * metrics.size_mb < 100 * metrics.total_pages
            base == IF page_w THEN "page-constrained"
                    ELSE IF size_w THEN "size-constrained" ELSE "balanced"
            qualifier == IF high THEN "high-density" ELSE "low-density"
        IN  /\ ("size" \in { p.warnings[k] : k \in DOMAIN p.warnings }) <=> size_w
            /\ ("pages" \in { p.warnings[k] : k \in DOMAIN p.warnings }) <=> page_w
            /\ Len(p.warnings) = (IF size_w THEN 1 ELSE 0) + (IF page_w THEN 1 ELSE 0)
            /\ p.strategy = IF ~(high \/ low) THEN base
                            ELSE IF base = "balanced" THEN qualifier
                            ELSE base \o "-" \o qualifier

(* A candidate with both warnings and a density qualifier *)
C35_Witness ==
    /\ planop[1] = "calculate_split_plan"
    /\ Get(analysis).requires_splitting
    /\ Get(plan).warnings = <<"size", "pages">>
    /\ Get(plan).strategy = "page-constrained-low-density"

(* Safety factors in (0, 1] and a scaled page limit of at least one page *)
LimitsWellFormed ==
    /\ limits.safety_factor_size \in 1..100
    /\ limits.safety_factor_pages \in 1..100
    /\ safe_max_pages(limits) >= 1

(* C36: for every limits value with safety factors in (0, 1] and           *)
(* safe_max_pages >= 1, requires_splitting implies required_files >= 2, so *)
(* the default plan, the optimal plan and every alternative plan of a file *)
(* that requires splitting has num_files >= 2; the converse does not hold: *)
(* a file of 47 MB within the page limit has required_files = 2 under the  *)
(* default limits while requires_splitting is false, and the plan of a     *)
(* file that does not require splitting is the single-file plan.           *)
C36_SplitNeedsAtLeastTwoFiles ==
    (IsSome(analysis) /\ LimitsWellFormed) =>
        LET a == Get(analysis)
        IN  /\ a.requires_splitting => a.required_files >= 2
            /\ (a.requires_splitting /\ planop = <<"calculate_split_plan", None>>)
                  => Get(plan).num_files >= 2
            /\ (a.requires_splitting /\ planop = <<"get_optimal_split_plan">> /\ IsSome(plan))
                  => Get(plan).num_files >= 2
            /\ (a.requires_splitting /\ planop = <<"get_alternative_plans">>)
                  => \A k \in DOMAIN plan : plan[k].num_files >= 2
            /\ (~a.requires_splitting /\ planop[1] \in
                      {"calculate_split_plan", "get_optimal_split_plan", "get_alternative_plans"})
                  => plan = <<no_split_plan(a)>> /\ plan[1].num_files = 1
            /\ (limits = DefaultLimits /\ metrics.size_mb = 4700
                      /\ metrics.total_pages <= limits.max_pages)
                  => a.required_files = 2 /\ ~a.requires_splitting

(* The default plan of a file that requires splitting *)
C36_Witness ==
    /\ IsSome(analysis)
    /\ LimitsWellFormed
    /\ Get(analysis).requires_splitting
    /\ planop = <<"calculate_split_plan", None>>
    /\ Get(plan).num_files = Get(analysis).required_files
    /\ Get(plan).num_files >= 2

(* C37: with the default limits the consolidated planner agrees with the   *)
(* planner it replaces for every (size_mb, total_pages):                   *)
(* analyze_split_needs and analyze_pdf give the same requires_splitting,   *)
(* get_optimal_split_plan and calculate_optimal_split return plans with    *)
(* the same num_files, pages_per_file, estimated_mb_per_file, strategy,    *)
(* efficiency_score and warnings, and get_alternative_plans returns the    *)
(* list of get_alternative_recommendations.                                *)
C37_ConsolidatedPlannerEquivalent ==
    (IsSome(analysis) /\ limits = DefaultLimits) =>
        LET a == Get(analysis)
            b == analyze_pdf(metrics.size_mb, metrics.total_pages)
        IN  /\ a.requires_splitting = b.requires_splitting
            /\ planop = <<"get_optimal_split_plan">>
                  => calculate_optimal_split(b) = <<"return", plan>>
            /\ planop = <<"get_alternative_plans">>
                  => get_alternative_recommendations(b) = <<"return", plan>>

----------------------------------------------------------------------------
(* The pre-division recommendation, checked under SpecPre                  *)

(* C38: for every file with size and total_pages >= 1, dividing into       *)
(* recommended_num_files = max(ceil(size / (0.9 x max_size_mb)),           *)
(* ceil(pages / (0.9 x max_pages))) files with the uniform distribution    *)
(* gives an analysis whose all_within_limits is true: every estimated file *)
(* (pages x size/total_pages x 1.03) is at most max_size_mb and has at     *)
(* most max_pages pages; a 'recommended' option of                         *)
(* get_division_recommendations is within the limits as well.              *)
C38_RecommendationRespectsLimits ==
    /\ (planop[1] = "validate_before_split" /\ metrics.total_pages >= 1) =>
          LET a == Get(analysis)[2][2]
          IN  /\ a.recommended_num_files =
                    Max2(CeilDiv(10 * metrics.size_mb, 9 * limits.max_size_mb),
                         CeilDiv(10 * metrics.total_pages, 9 * limits.max_pages))
              /\ a.requested_num_files = a.recommended_num_files =>
                    /\ a.all_within_limits
                    /\ \A i \in DOMAIN a.estimated_files :
                         /\ RLeq(a.estimated_files[i].estimated_size_mb,
                                 RInt(limits.max_size_mb))
                         /\ a.estimated_files[i].pages <= limits.max_pages
    /\ planop = <<"get_division_recommendations">> =>
          \A k \in DOMAIN Get(plan) :
             Get(plan)[k].type = "recommended" => Get(plan)[k].all_within_limits

====
